---- MODULE Spec2Model ----
(***************************************************************************)
(* A model of the persistent vector index of the QA agent                  *)
(* (backend/core/vectordb.py), of the embedding generator it consumes      *)
(* (backend/core/embeddings.py) and of the handler that clears it          *)
(* (backend/api/ingestion.py).                                             *)
(*                                                                         *)
(* The state is the live VectorDB object (index, metadata), the two files  *)
(* it persists to (<path>.index and <path>.metadata.json), whether the     *)
(* process is running, and the outcome of the last operation.  Three       *)
(* history variables (hits, added, committed) record what the properties   *)
(* speak about and are read by no action.                                  *)
(***************************************************************************)
EXTENDS Integers, Sequences, FiniteSets, TLC

\* ------------------------------------------------------------------ bounds
MaxEntries == 3   \* vectors / metadata entries held at most
MaxRequests == 2  \* requests in flight at most
MaxBatch == 2     \* chunks per add_documents call at most
MaxK == 3         \* largest k asked of search
Dim == 2          \* embedding dimension of the model in use

\* --------------------------------------------------------------- the inputs
\* Chunks: one with metadata as the parsers build it (source, type), and one
\* whose metadata map also carries a key named "text".
Chunks ==
  { [text |-> "a", metadata |-> [source |-> "doc.txt", type |-> "txt"]],
    [text |-> "b", metadata |-> [source |-> "doc.txt", type |-> "txt", text |-> "shadow"]] }

Queries == {"", "a", "c"}

RECURSIVE SeqsUpTo(_, _)
SeqsUpTo(S, n) ==
  IF n = 0 THEN {<<>>}
  ELSE LET shorter == SeqsUpTo(S, n - 1)
       IN  shorter \cup {Append(s, x) : s \in {t \in shorter : Len(t) = n - 1}, x \in S}

Batches == SeqsUpTo(Chunks, MaxBatch)

\* What the embedding provider hands back for a batch.
ProviderModes == {"conforming", "empty", "wrongdim", "extra"}

\* Where persist() is interrupted: an I/O error raised to the caller, or the
\* process dying.
IOFaults == {"index_write", "meta_open", "meta_write"}
CrashFaults == {"crash_index_write", "crash_between", "crash_meta_write"}

VARIABLES
  up,            \* the process is running and holds a constructed VectorDB
  index,         \* self.index: the vectors of the IndexFlatL2, in insertion order
  metadata,      \* self.metadata: list of dicts
  indexFile,     \* <index_path>.index
  metadataFile,  \* <index_path>.metadata.json
  result,        \* the last operation, its arguments and its outcome
  hits,          \* history: positions (0-based) behind the last search's results
  added,         \* history: chunks appended to the live index since the last clear
  committed,     \* history: index content when add_documents last returned normally
  tasks,         \* the event loop: the request that runs and each request's position
  parse          \* the markdown parsers' loop: the lines read and each parser's locals

vars ==
  <<up, index, metadata, indexFile, metadataFile, result, hits, added, committed,
    tasks, parse>>

\* ------------------------------------------------------------------- dicts
\* {**a, **b}: keys of b win.
DictMerge(a, b) ==
  [k \in (DOMAIN a) \cup (DOMAIN b) |-> IF k \in DOMAIN b THEN b[k] ELSE a[k]]

\* d.pop(key, default): the value popped
DictPopValue(d, key, default) == IF key \in DOMAIN d THEN d[key] ELSE default

\* d.pop(key, default): the dict that remains
DictPopRest(d, key) == [k \in (DOMAIN d) \ {key} |-> d[k]]

\* -------------------------------------------------------------- embeddings
\* SentenceTransformer.encode for one text: deterministic, Dim floats.
Encode(t) ==
  [i \in 1..Dim |->
     CASE t = "a" -> IF i = 1 THEN 1 ELSE 0
       [] t = "b" -> IF i = 2 THEN 1 ELSE 0
       [] t = "c" -> IF i = 1 THEN 2 ELSE 0
       [] OTHER -> 0]

\* EmbeddingGenerator.get_embedding: the zero vector for an empty text.
GetEmbedding(text) ==
  IF text = "" THEN [i \in 1..Dim |-> 0] ELSE Encode(text)

\* EmbeddingGenerator.get_embeddings: np.array([]) for no texts, else what the
\* model returns: n rows of Dim floats from a conforming provider.
GetEmbeddings(texts, mode) ==
  LET n == Len(texts)
      rows == [i \in 1..n |-> Encode(texts[i])]
  IN  IF n = 0 THEN <<>>
      ELSE CASE mode = "conforming" -> rows
             [] mode = "empty" -> <<>>
             [] mode = "wrongdim" -> [i \in 1..n |-> Append(rows[i], 0)]
             [] mode = "extra" -> Append(rows, rows[n])

\* ndarray.size of an (n x d) array
ArraySize(emb) == IF Len(emb) = 0 THEN 0 ELSE Len(emb) * Len(emb[1])

\* ------------------------------------------------------------- FAISS index
FLT_MAX == 1000000

RECURSIVE SumSq(_, _, _)
SumSq(x, y, i) ==
  IF i = 0 THEN 0 ELSE (x[i] - y[i]) * (x[i] - y[i]) + SumSq(x, y, i - 1)

\* squared Euclidean distance of IndexFlatL2
L2Sqr(x, y) == SumSq(x, y, Len(x))

\* FaissSearch with equal distances by descending label
FaissSearchTiesLast(xb, q, k) ==
  LET n == Len(xb)
      D == [i \in 1..n |-> L2Sqr(xb[i], q)]
      Before(i, j) == D[i] < D[j] \/ (D[i] = D[j] /\ i > j)
      Rank(i) == Cardinality({j \in 1..n : Before(j, i)})
  IN  [r \in 1..k |->
         IF r <= n
         THEN LET i == CHOOSE i \in 1..n : Rank(i) = r - 1
              IN  [idx |-> i - 1, dist |-> D[i]]
         ELSE [idx |-> -1, dist |-> FLT_MAX]]

\* IndexFlatL2.search for one query: k (label, distance) pairs, nearest first,
\* equal distances by ascending label; missing neighbours are label -1.
FaissSearch(xb, q, k) ==
  LET n == Len(xb)
      D == [i \in 1..n |-> L2Sqr(xb[i], q)]
      Before(i, j) == D[i] < D[j] \/ (D[i] = D[j] /\ i < j)
      Rank(i) == Cardinality({j \in 1..n : Before(j, i)})
  IN  [r \in 1..k |->
         IF r <= n
         THEN LET i == CHOOSE i \in 1..n : Rank(i) = r - 1
              IN  [idx |-> i - 1, dist |-> D[i]]
         ELSE [idx |-> -1, dist |-> FLT_MAX]]

\* ------------------------------------------------------------------- files
NoIndexFile == [st |-> "absent", d |-> 0, ntotal |-> 0, xb |-> <<>>]
CorruptIndexFile == [st |-> "corrupt", d |-> 0, ntotal |-> 0, xb |-> <<>>]
NoMetadataFile == [st |-> "absent", items |-> <<>>]
CorruptMetadataFile == [st |-> "corrupt", items |-> <<>>]

RECURSIVE Flatten(_)
Flatten(rows) == IF rows = <<>> THEN <<>> ELSE Head(rows) \o Flatten(Tail(rows))

\* faiss.write_index: header (d, ntotal) and the vectors as one flat array
WriteIndex(xb) ==
  [st |-> "ok", d |-> Dim, ntotal |-> Len(xb), xb |-> Flatten(xb)]

\* ReadIndex with the row stride left out
ReadIndexNoStride(f) ==
  [i \in 1..f.ntotal |-> [j \in 1..f.d |-> f.xb[(i - 1) + j]]]

\* faiss.read_index
ReadIndex(f) ==
  [i \in 1..f.ntotal |-> [j \in 1..f.d |-> f.xb[(i - 1) * f.d + j]]]

\* json.dump of the metadata list: an array of objects, each a set of members
JsonDump(md) ==
  [st |-> "ok",
   items |-> [i \in 1..Len(md) |-> {<<k, md[i][k]>> : k \in DOMAIN md[i]}]]

\* json.load
JsonLoad(f) ==
  [i \in 1..Len(f.items) |->
     [k \in {m[1] : m \in f.items[i]} |->
        (CHOOSE m \in f.items[i] : m[1] = k)[2]]]

\* ---------------------------------------------------------------- VectorDB
\* add_documents, lines 76-82: the metadata entry stored for a chunk
MetadataWithText(chunk) == DictMerge([text |-> chunk.text], chunk.metadata)

\* AddInMemory with the metadata stored before the vectors are added
AddInMemoryMetadataFirst(ix, md, chunks, mode) ==
  LET texts == [i \in 1..Len(chunks) |-> chunks[i].text]
      emb == GetEmbeddings(texts, mode)
      grown == md \o [i \in 1..Len(chunks) |-> MetadataWithText(chunks[i])]
  IN  IF chunks = <<>>
        THEN [index |-> ix, metadata |-> md, status |-> "ok", appended |-> FALSE]
      ELSE IF ArraySize(emb) = 0
        THEN [index |-> ix, metadata |-> md, status |-> "ok", appended |-> FALSE]
      ELSE IF Len(emb[1]) # Dim
        THEN [index |-> ix, metadata |-> grown, status |-> "AssertionError",
              appended |-> FALSE]
      ELSE [index |-> ix \o emb, metadata |-> grown, status |-> "ok", appended |-> TRUE]

\* AddInMemory skipping the chunks whose entry is stored already
AddInMemoryDedup(ix, md, chunks, mode) ==
  LET fresh == SelectSeq(chunks, LAMBDA c :
                 \A i \in 1..Len(md) : md[i] # MetadataWithText(c))
      texts == [i \in 1..Len(fresh) |-> fresh[i].text]
      emb == GetEmbeddings(texts, mode)
      same == [index |-> ix, metadata |-> md]
  IN  IF fresh = <<>> THEN same @@ [status |-> "ok", appended |-> FALSE]
      ELSE IF ArraySize(emb) = 0 THEN same @@ [status |-> "ok", appended |-> FALSE]
      ELSE IF Len(emb[1]) # Dim
        THEN same @@ [status |-> "AssertionError", appended |-> FALSE]
      ELSE [index |-> ix \o emb,
            metadata |-> md \o [i \in 1..Len(fresh) |-> MetadataWithText(fresh[i])],
            status |-> "ok",
            appended |-> TRUE]

\* AddInMemory putting the new entries in front of the stored ones
AddInMemoryPrepend(ix, md, chunks, mode) ==
  LET texts == [i \in 1..Len(chunks) |-> chunks[i].text]
      emb == GetEmbeddings(texts, mode)
      same == [index |-> ix, metadata |-> md]
  IN  IF chunks = <<>> THEN same @@ [status |-> "ok", appended |-> FALSE]
      ELSE IF ArraySize(emb) = 0 THEN same @@ [status |-> "ok", appended |-> FALSE]
      ELSE IF Len(emb[1]) # Dim
        THEN same @@ [status |-> "AssertionError", appended |-> FALSE]
      ELSE [index |-> emb \o ix,
            metadata |-> [i \in 1..Len(chunks) |-> MetadataWithText(chunks[i])] \o md,
            status |-> "ok",
            appended |-> TRUE]

\* add_documents, lines 60-82: the in-memory effect
AddInMemory(ix, md, chunks, mode) ==
  LET texts == [i \in 1..Len(chunks) |-> chunks[i].text]
      emb == GetEmbeddings(texts, mode)
      same == [index |-> ix, metadata |-> md]
  IN  IF chunks = <<>> THEN same @@ [status |-> "ok", appended |-> FALSE]
      ELSE IF ArraySize(emb) = 0 THEN same @@ [status |-> "ok", appended |-> FALSE]
      ELSE IF Len(emb[1]) # Dim
        THEN same @@ [status |-> "AssertionError", appended |-> FALSE]
      ELSE [index |-> ix \o emb,
            metadata |-> md \o [i \in 1..Len(chunks) |-> MetadataWithText(chunks[i])],
            status |-> "ok",
            appended |-> TRUE]

\* persist: the two files after the call and how the call ended
PersistFiles(ix, md, ifile, mfile, fault) ==
  CASE fault = "none" ->
         [indexFile |-> WriteIndex(ix), metadataFile |-> JsonDump(md), status |-> "ok"]
    [] fault = "index_write" ->
         [indexFile |-> CorruptIndexFile, metadataFile |-> mfile, status |-> "RuntimeError"]
    [] fault = "meta_open" ->
         [indexFile |-> WriteIndex(ix), metadataFile |-> mfile, status |-> "OSError"]
    [] fault = "meta_write" ->
         [indexFile |-> WriteIndex(ix), metadataFile |-> CorruptMetadataFile,
          status |-> "OSError"]
    [] fault = "crash_index_write" ->
         [indexFile |-> CorruptIndexFile, metadataFile |-> mfile, status |-> "crashed"]
    [] fault = "crash_between" ->
         [indexFile |-> WriteIndex(ix), metadataFile |-> mfile, status |-> "crashed"]
    [] fault = "crash_meta_write" ->
         [indexFile |-> WriteIndex(ix), metadataFile |-> CorruptMetadataFile,
          status |-> "crashed"]

\* load: the object's fields after the call and how the call ended
LoadState(ix, md, ifile, mfile) ==
  IF ifile.st = "absent"
    THEN [index |-> ix, metadata |-> md, status |-> "FileNotFoundError"]
  ELSE IF ifile.st = "corrupt"
    THEN [index |-> ix, metadata |-> md, status |-> "RuntimeError"]
  ELSE IF mfile.st = "corrupt"
    THEN [index |-> ReadIndex(ifile), metadata |-> md, status |-> "JSONDecodeError"]
  ELSE IF mfile.st = "ok"
    THEN [index |-> ReadIndex(ifile), metadata |-> JsonLoad(mfile), status |-> "ok"]
  ELSE [index |-> ReadIndex(ifile), metadata |-> <<>>, status |-> "ok"]

\* _initialize_index: load when the index file exists, else a new empty index
InitializeIndex(ix, md, ifile, mfile) ==
  IF ifile.st # "absent"
    THEN LoadState(ix, md, ifile, mfile)
    ELSE [index |-> <<>>, metadata |-> <<>>, status |-> "ok"]

\* list[i] with Python's negative indices
PyIndex(list, i) == IF i < 0 THEN list[Len(list) + i + 1] ELSE list[i + 1]

\* SearchPairs without the lower bound on the label
SearchPairsNoLowerBound(ix, md, q, k) ==
  IF Len(ix) = 0 THEN <<>>
  ELSE SelectSeq(FaissSearch(ix, GetEmbedding(q), k), LAMBDA p : p.idx < Len(md))

\* search, lines 106-110: the (label, distance) pairs that pass the filter
SearchPairs(ix, md, q, k) ==
  IF Len(ix) = 0 THEN <<>>
  ELSE SelectSeq(FaissSearch(ix, GetEmbedding(q), k),
                 LAMBDA p : p.idx < Len(md) /\ p.idx >= 0)

\* search, lines 111-118: one result per pair
SearchResults(ix, md, q, k) ==
  LET pairs == SearchPairs(ix, md, q, k)
  IN  [j \in 1..Len(pairs) |->
         [text |-> DictPopValue(PyIndex(md, pairs[j].idx), "text", ""),
          metadata |-> DictPopRest(PyIndex(md, pairs[j].idx), "text"),
          score |-> pairs[j].dist]]

SearchHits(ix, md, q, k) ==
  LET pairs == SearchPairs(ix, md, q, k)
  IN  [j \in 1..Len(pairs) |-> pairs[j].idx]

\* ----------------------------------------------------------------- records
Outcome(op, status) ==
  [op |-> op, status |-> status, out |-> <<>>, q |-> "", k |-> 0,
   n |-> 0, mode |-> "", fault |-> ""]

NothingCommitted == [index |-> <<>>, metadata |-> <<>>]

\* A request slot that no request has taken.
NoRequest ==
  [kind |-> "none", pc |-> "none", chunks |-> <<>>, q |-> "", k |-> 0,
   pairs |-> <<>>, out |-> <<>>]

\* No request in flight, the event loop idle.
NoTasks == [loop |-> 0, req |-> [r \in 1..MaxRequests |-> NoRequest]]

\* No markdown text is being parsed.
NoParse == [lines |-> <<>>, backend |-> <<>>, frontend |-> <<>>, returned |-> FALSE]

Init ==
  /\ up = TRUE
  /\ index = <<>>
  /\ metadata = <<>>
  /\ indexFile = NoIndexFile
  /\ metadataFile = NoMetadataFile
  /\ result = Outcome("init", "ok")
  /\ hits = <<>>
  /\ added = <<>>
  /\ committed = NothingCommitted
  /\ tasks = NoTasks
  /\ parse = NoParse

\* ----------------------------------------------------------------- actions
\* VectorDB.add_documents(chunks) with the provider answering in `mode` and
\* persist() interrupted as `fault` says.
AddDocuments(chunks, mode, fault) ==
  LET mem == AddInMemory(index, metadata, chunks, mode)
      disk == PersistFiles(mem.index, mem.metadata, indexFile, metadataFile, fault)
      status == IF mem.appended THEN disk.status ELSE mem.status
  IN  /\ up
      /\ Len(mem.index) <= MaxEntries
      /\ Len(mem.metadata) <= MaxEntries
      /\ fault # "none" => mem.appended
      /\ up' = (status # "crashed")
      /\ index' = IF status = "crashed" THEN <<>> ELSE mem.index
      /\ metadata' = IF status = "crashed" THEN <<>> ELSE mem.metadata
      /\ indexFile' = IF mem.appended THEN disk.indexFile ELSE indexFile
      /\ metadataFile' = IF mem.appended THEN disk.metadataFile ELSE metadataFile
      /\ result' = [Outcome("add", status) EXCEPT
                      !.n = Len(chunks), !.mode = mode, !.fault = fault]
      /\ hits' = <<>>
      /\ added' = IF mem.appended THEN added \o chunks ELSE added
      /\ committed' = IF mem.appended /\ status = "ok"
                        THEN [index |-> mem.index, metadata |-> mem.metadata]
                        ELSE committed
      /\ UNCHANGED <<tasks, parse>>

Add == \E chunks \in Batches : AddDocuments(chunks, "conforming", "none")

AddBadProvider ==
  \E chunks \in Batches, mode \in ProviderModes \ {"conforming"} :
    AddDocuments(chunks, mode, "none")

AddIOError ==
  \E chunks \in Batches, fault \in IOFaults : AddDocuments(chunks, "conforming", fault)

AddCrash ==
  \E chunks \in Batches, fault \in CrashFaults :
    AddDocuments(chunks, "conforming", fault)

\* VectorDB.search(query, k)
Search ==
  \E q \in Queries, k \in 1..MaxK :
    /\ up
    /\ result' = [Outcome("search", "ok") EXCEPT
                    !.out = SearchResults(index, metadata, q, k), !.q = q, !.k = k]
    /\ hits' = SearchHits(index, metadata, q, k)
    /\ UNCHANGED <<up, index, metadata, indexFile, metadataFile, added, committed,
                   tasks, parse>>

\* VectorDB.persist()
Persist ==
  LET disk == PersistFiles(index, metadata, indexFile, metadataFile, "none")
  IN  /\ up
      /\ indexFile' = disk.indexFile
      /\ metadataFile' = disk.metadataFile
      /\ result' = Outcome("persist", disk.status)
      /\ hits' = <<>>
      /\ UNCHANGED <<up, index, metadata, added, committed,
                     tasks, parse>>

\* VectorDB.load() on the live object
Load ==
  LET mem == LoadState(index, metadata, indexFile, metadataFile)
  IN  /\ up
      /\ index' = mem.index
      /\ metadata' = mem.metadata
      /\ result' = Outcome("load", mem.status)
      /\ hits' = <<>>
      /\ UNCHANGED <<up, indexFile, metadataFile, added, committed,
                     tasks, parse>>

\* DELETE /api/ingestion/clear
Clear ==
  /\ up
  /\ IF Len(index) = 0
       THEN /\ result' = Outcome("clear", "already_empty")
            /\ UNCHANGED <<index, metadata, indexFile, metadataFile, added, committed,
                           tasks, parse>>
       ELSE LET mem == InitializeIndex(index, metadata, NoIndexFile, NoMetadataFile)
            IN  /\ indexFile' = NoIndexFile
                /\ metadataFile' = NoMetadataFile
                /\ index' = mem.index
                /\ metadata' = mem.metadata
                /\ result' = Outcome("clear", "ok")
                /\ added' = <<>>
                /\ committed' = NothingCommitted
  /\ hits' = <<>>
  /\ UNCHANGED <<up, tasks, parse>>

\* The process ends between two requests; the files stay.
Stop ==
  /\ up
  /\ up' = FALSE
  /\ index' = <<>>
  /\ metadata' = <<>>
  /\ result' = Outcome("stop", "ok")
  /\ hits' = <<>>
  /\ UNCHANGED <<indexFile, metadataFile, added, committed,
                 tasks, parse>>

\* The process starts: VectorDB.__init__ sets index = None, metadata = [] and
\* calls _initialize_index; an exception there ends the start.
Start ==
  LET mem == InitializeIndex(<<>>, <<>>, indexFile, metadataFile)
  IN  /\ ~up
      /\ up' = (mem.status = "ok")
      /\ index' = IF mem.status = "ok" THEN mem.index ELSE <<>>
      /\ metadata' = IF mem.status = "ok" THEN mem.metadata ELSE <<>>
      /\ result' = Outcome("start", mem.status)
      /\ hits' = <<>>
      /\ UNCHANGED <<indexFile, metadataFile, added, committed,
                     tasks, parse>>

\* Every operation answers, the provider conforms, no I/O error, no crash.
Next == Add \/ Search \/ Persist \/ Load \/ Clear \/ Stop \/ Start

Spec == Init /\ [][Next]_vars

\* The same operations with a provider that may return any array.
NextProvider == Next \/ AddBadProvider

SpecProvider == Init /\ [][NextProvider]_vars

\* The same operations with I/O errors raised inside persist.
NextIO == Next \/ AddIOError

SpecIO == Init /\ [][NextIO]_vars

\* The same operations with the process dying inside persist.
NextCrash == Next \/ AddCrash

SpecCrash == Init /\ [][NextCrash]_vars

\* ------------------------------------------------------------- properties
Min(a, b) == IF a < b THEN a ELSE b

IsPrefix(s, t) == Len(s) <= Len(t) /\ SubSeq(t, 1, Len(s)) = s

\* C1: in every reachable state of a running index the number of stored
\* vectors equals the number of metadata entries.
LengthInvariant == up => Len(index) = Len(metadata)

\* C2: every search result for the vector at position i carries the text of the
\* chunk added i-th and that chunk's metadata without a text field.
SearchAligned ==
  result.op = "search" =>
    \A j \in 1..Len(result.out) :
      LET c == added[hits[j] + 1]
      IN  /\ result.out[j].text = c.text
          /\ "text" \notin DOMAIN result.out[j].metadata
          /\ result.out[j].metadata =
               [key \in (DOMAIN c.metadata) \ {"text"} |-> c.metadata[key]]

\* C3: what a returned add_documents committed is never lost: with entries
\* committed no start of the process fails, and a running index holds every
\* committed vector with its metadata at its position.
CommittedSurvives ==
  /\ (result.op = "start" /\ committed.index # <<>>) => result.status = "ok"
  /\ up => /\ IsPrefix(committed.index, index)
           /\ IsPrefix(committed.metadata, metadata)

\* C4: persist() followed by a fresh load from the same path answers every
\* search as the index did before persisting: for what persist would write
\* from the running index, and for the index a start loaded from what the last
\* add persisted.
RoundTrip ==
  /\ up =>
       LET disk == PersistFiles(index, metadata, indexFile, metadataFile, "none")
           fresh == InitializeIndex(<<>>, <<>>, disk.indexFile, disk.metadataFile)
       IN  /\ fresh.status = "ok"
           /\ \A q \in Queries, k \in 1..MaxK :
                SearchResults(fresh.index, fresh.metadata, q, k)
                  = SearchResults(index, metadata, q, k)
  /\ result.op = "start" =>
       /\ result.status = "ok"
       /\ \A q \in Queries, k \in 1..MaxK :
            SearchResults(index, metadata, q, k)
              = SearchResults(committed.index, committed.metadata, q, k)

RoundTripWitness ==
  /\ result.op = "start"
  /\ result.status = "ok"
  /\ Len(index) >= 2
  /\ index[1] # index[2]
  /\ index = committed.index

\* An add_documents call on a non-empty batch whose provider returned a
\* wrong-dimension array or empty output has just returned.
BadEmbeddingAdd ==
  /\ result'.op = "add"
  /\ result'.n > 0
  /\ result'.mode \in {"wrongdim", "empty"}

StoreUnchanged ==
  /\ index' = index
  /\ metadata' = metadata
  /\ indexFile' = indexFile
  /\ metadataFile' = metadataFile

FailedAddInvisible ==
  [][(result'.op = "add" /\ result'.status # "ok") =>
       (index' = index /\ metadata' = metadata)]_vars

\* The index file and the sidecar disagree on the number of entries (a missing
\* sidecar holds none).
FileCountsDiffer ==
  /\ indexFile.st = "ok"
  /\ metadataFile.st # "corrupt"
  /\ indexFile.ntotal # Len(metadataFile.items)

\* C7: load fails with CorruptIndexError whenever the files disagree on the
\* number of entries.
MismatchRaisesCorruptIndexError ==
  (result.op \in {"load", "start"} /\ FileCountsDiffer) =>
    result.status = "CorruptIndexError"

\* C8: a load of corrupt or mismatching files surfaces an error and leaves the
\* in-memory index as it was before the call.
FailedLoadKeepsState ==
  [][(/\ result'.op \in {"load", "start"}
      /\ \/ FileCountsDiffer
         \/ indexFile.st = "corrupt"
         \/ (indexFile.st = "ok" /\ metadataFile.st = "corrupt"))
       => (result'.status # "ok" /\ index' = index /\ metadata' = metadata)]_vars

SearchClamped ==
  result.op = "search" =>
    /\ Len(result.out) = Min(result.k, Len(index))
    /\ \A j \in 1..Len(result.out) :
         /\ result.out[j].score # FLT_MAX
         /\ hits[j] >= 0
         /\ result.out[j].text \in
              {DictPopValue(metadata[i], "text", "") : i \in 1..Len(metadata)}

SearchClampedWitness ==
  /\ result.op = "search"
  /\ Len(index) >= 1
  /\ result.k > Len(index)
  /\ Len(result.out) = Len(index)

\* ------------------------------------------------------------ RAG pipeline
\* Texts longer than a word are sequences of pieces; a piece is a string.
Templates == {"none", "json", "markdown"}

\* The prompt templates of generate_test_cases, cut at their replacement
\* fields and escaped braces.
TemplateText(t) ==
  IF t = "json"
    THEN <<"You are a QA test case generation expert. Context Documents:\n",
           "{context}", "\n\nUser Query: ", "{query}",
           "\n\nExample format:\n[\n  ", "{{", "\"Test_ID\": \"TC-001\"", "}}",
           "\n]\nOutput ONLY the JSON array, nothing else:">>
    ELSE <<"You are a QA test case generation expert. Context Documents:\n",
           "{context}", "\n\nUser Query: ", "{query}",
           "\n\nGenerate the test cases now:">>

\* VectorDB.get_stats
GetStats(ix) == [total_documents |-> Len(ix), dimension |-> Dim]

\* RAGPipeline.retrieve_context: the raising variant moves the empty check of
\* generate_with_rag into retrieval.
RetrieveContextStrict(ix, md, q, k) ==
  LET results == SearchResults(ix, md, q, k)
  IN  [status |-> IF results = <<>> THEN "ValueError" ELSE "ok", out |-> results]

RetrieveContext(ix, md, q, k) ==
  [status |-> "ok", out |-> SearchResults(ix, md, q, k)]

RECURSIVE Join(_, _)
Join(parts, sep) ==
  IF parts = <<>> THEN <<>>
  ELSE IF Len(parts) = 1 THEN parts[1]
  ELSE parts[1] \o sep \o Join(Tail(parts), sep)

\* RAGPipeline.format_context
FormatContext(contexts) ==
  LET formatted ==
        [i \in 1..Len(contexts) |->
           <<"[Document ", ToString(i), " from ",
             IF "source" \in DOMAIN contexts[i].metadata
               THEN contexts[i].metadata["source"] ELSE "unknown",
             "]\n", contexts[i].text, "\n">>]
  IN  Join(formatted, <<"\n">>)

\* str.format(query=..., context=...) on a template cut into pieces
RECURSIVE Format(_, _, _)
Format(template, query, context) ==
  IF template = <<>> THEN <<>>
  ELSE LET piece == Head(template)
           out == IF piece = "{context}" THEN context
                  ELSE IF piece = "{query}" THEN <<query>>
                  ELSE IF piece = "{{" THEN <<"{">>
                  ELSE IF piece = "}}" THEN <<"}">>
                  ELSE <<piece>>
       IN  out \o Format(Tail(template), query, context)

\* generate_with_rag without the check for an empty retrieval
GenerateWithRagNoCheck(ix, md, query, k, t) ==
  LET contexts == RetrieveContext(ix, md, query, k).out
      context_text == FormatContext(contexts)
  IN  [status |-> "ok",
       prompt |-> IF t = "none"
                    THEN <<"Based on the following context documents, please provide a detailed response.\n\nContext Documents:\n">>
                         \o context_text
                         \o <<"\n\nQuery: ", query, "\n\nResponse:">>
                    ELSE Format(TemplateText(t), query, context_text),
       contexts |-> contexts]

\* RAGPipeline.generate_with_rag
GenerateWithRagResult(ix, md, query, k, t) ==
  LET retrieved == RetrieveContext(ix, md, query, k)
      contexts == retrieved.out
      context_text == FormatContext(contexts)
  IN  IF retrieved.status # "ok"
        THEN [status |-> retrieved.status, prompt |-> <<>>, contexts |-> <<>>]
      ELSE IF contexts = <<>>
        THEN [status |-> "ValueError", prompt |-> <<>>, contexts |-> <<>>]
      ELSE [status |-> "ok",
            prompt |-> IF t = "none"
                         THEN <<"Based on the following context documents, please provide a detailed response.\n\nContext Documents:\n">>
                              \o context_text
                              \o <<"\n\nQuery: ", query, "\n\nResponse:">>
                         ELSE Format(TemplateText(t), query, context_text),
            contexts |-> contexts]

\* What generate_test_cases answers when generate_with_rag ends with `status`:
\* 0 stands for no error response at this point.
HttpError(status) == IF status = "ValueError" THEN 400 ELSE 0

\* RAGPipeline.retrieve_context(query, k)
RetrieveContextCall ==
  \E q \in Queries, k \in 1..MaxK :
    LET r == RetrieveContext(index, metadata, q, k)
    IN  /\ up
        /\ result' = [Outcome("retrieve_context", r.status) EXCEPT
                        !.out = r.out, !.q = q, !.k = k]
        /\ hits' = IF r.status = "ok" THEN SearchHits(index, metadata, q, k) ELSE <<>>
        /\ UNCHANGED <<up, index, metadata, indexFile, metadataFile, added, committed,
                       tasks, parse>>

\* RAGPipeline.generate_with_rag(query, k, prompt_template) as generate_test_cases
\* calls it
GenerateWithRag ==
  \E q \in Queries, k \in 1..MaxK, t \in Templates :
    LET r == GenerateWithRagResult(index, metadata, q, k, t)
    IN  /\ up
        /\ result' = [op |-> "generate_with_rag", status |-> r.status,
                      out |-> r.contexts, q |-> q, k |-> k, n |-> 0, mode |-> "",
                      fault |-> "", template |-> t, prompt |-> r.prompt,
                      http |-> HttpError(r.status)]
        /\ hits' = IF r.status = "ok" THEN SearchHits(index, metadata, q, k) ELSE <<>>
        /\ UNCHANGED <<up, index, metadata, indexFile, metadataFile, added, committed,
                       tasks, parse>>

\* What the handlers do with the pipeline when nothing fails: add, clear,
\* search, retrieve and build a prompt.
NextRag == Add \/ Clear \/ Search \/ RetrieveContextCall \/ GenerateWithRag

SpecRag == Init /\ [][NextRag]_vars

\* C11: on an index with zero entries search and retrieve_context return an
\* empty result without raising; only generate_with_rag ends in an error there.
EmptyIndexSearchEmpty ==
  (up /\ Len(index) = 0) =>
    /\ result.op \in {"search", "retrieve_context"} =>
         (result.status = "ok" /\ result.out = <<>>)
    /\ result.op = "generate_with_rag" => result.status = "ValueError"

EmptyIndexSearchWitness ==
  /\ result.op = "retrieve_context"
  /\ up
  /\ Len(index) = 0
  /\ result.status = "ok"
  /\ result.out = <<>>

\* C12: every add_documents that returns normally raises the total_documents
\* of get_stats by exactly the number of chunks of the batch, whether or not
\* the same chunks are stored already.
AddGrowsByBatch ==
  [][(up /\ result'.op = "add" /\ result'.status = "ok") =>
       GetStats(index').total_documents
         = GetStats(index).total_documents + result'.n]_vars

AddGrowsByBatchWitness ==
  /\ result.op = "add"
  /\ result.status = "ok"
  /\ result.n = 1
  /\ GetStats(index).total_documents = 3
  /\ added[1] = added[2]
  /\ added[2] = added[3]

\* The entries of a running index are the chunks of `log` in order: the vector
\* of each chunk's text and the chunk's metadata.
StoredInOrder(ix, md, log) ==
  /\ Len(ix) = Len(log)
  /\ Len(md) = Len(log)
  /\ \A i \in 1..Len(log) :
       /\ ix[i] = GetEmbedding(log[i].text)
       /\ DictPopRest(md[i], "text") = DictPopRest(log[i].metadata, "text")

\* C13: the index is append-only. No step other than a clear changes or moves
\* a stored entry, an add appends its batch behind them in batch order, and
\* a running index always holds the chunks added since the last clear in the
\* order they were added.
AppendOnly ==
  [][/\ (up /\ up' /\ result'.op # "clear") =>
          (IsPrefix(index, index') /\ IsPrefix(metadata, metadata'))
     /\ (up /\ result'.op = "add" /\ result'.status = "ok") =>
          LET batch == SubSeq(added', Len(added) + 1, Len(added'))
          IN  /\ Len(batch) = result'.n
              /\ StoredInOrder(SubSeq(index', Len(index) + 1, Len(index')),
                               SubSeq(metadata', Len(metadata) + 1, Len(metadata')),
                               batch)
     /\ up' => StoredInOrder(index', metadata', added')]_vars

AppendOnlyWitness ==
  /\ result.op = "add"
  /\ result.n = 2
  /\ Len(index) = 3
  /\ index[2] # index[3]
  /\ index[1] = index[3]
  /\ committed.index = index

\* C14: after a clear both files are gone, the in-memory index is empty, every
\* search returns nothing and a restart yields an empty index.
ClearLeavesNothing ==
  result.op = "clear" =>
    /\ indexFile.st = "absent"
    /\ metadataFile.st = "absent"
    /\ GetStats(index).total_documents = 0
    /\ metadata = <<>>
    /\ \A q \in Queries, k \in 1..MaxK : SearchResults(index, metadata, q, k) = <<>>
    /\ LET fresh == InitializeIndex(<<>>, <<>>, indexFile, metadataFile)
       IN  fresh.status = "ok" /\ fresh.index = <<>> /\ fresh.metadata = <<>>

\* The literal text of a template part: escaped braces written once.
Literal(part) ==
  [i \in 1..Len(part) |->
     IF part[i] = "{{" THEN "{" ELSE IF part[i] = "}}" THEN "}" ELSE part[i]]

Position(seq, piece) == CHOOSE i \in 1..Len(seq) : seq[i] = piece

\* C17: generate_with_rag ends with the no-context error, answered to the
\* client as HTTP 400, exactly when retrieval returns nothing; otherwise it
\* returns the retrieved results as retrieved and the template with the
\* formatted context and the raw query in the place of its two fields.
GenerateWithRagContract ==
  result.op = "generate_with_rag" =>
    LET retrieved == SearchResults(index, metadata, result.q, result.k)
        context == FormatContext(retrieved)
        T == TemplateText(result.template)
        ci == Position(T, "{context}")
        qi == Position(T, "{query}")
    IN  /\ (result.status = "ValueError") <=> (retrieved = <<>>)
        /\ result.status = "ValueError" => result.http = 400
        /\ result.status # "ValueError" =>
             /\ result.status = "ok"
             /\ result.http = 0
             /\ result.out = retrieved
             /\ result.template # "none" =>
                  result.prompt = Literal(SubSeq(T, 1, ci - 1)) \o context
                                    \o Literal(SubSeq(T, ci + 1, qi - 1))
                                    \o <<result.q>>
                                    \o Literal(SubSeq(T, qi + 1, Len(T)))
             /\ result.template = "none" =>
                  /\ SubSeq(result.prompt, 2, Len(context) + 1) = context
                  /\ SubSeq(result.prompt, Len(context) + 2, Len(result.prompt))
                       = <<"\n\nQuery: ", result.q, "\n\nResponse:">>

GenerateWithRagWitness ==
  /\ result.op = "generate_with_rag"
  /\ result.status = "ok"
  /\ result.template = "json"
  /\ Len(result.out) = 2
  /\ Len(index) = 3
  /\ result.out[1].text # result.out[2].text
  /\ "{" \in {result.prompt[i] : i \in 1..Len(result.prompt)}

\* --------------------------------------------------------------- str and json
\* A str is the sequence of its tokens: a bracket, a brace, a quote, a colon,
\* a comma, a full stop, one whitespace character, a code fence, a marker of
\* bold type, or a word without any of these. Positions count tokens from 0
\* as Python counts characters.
Whitespace == {" ", "\n", "\t", "\r"}

Slice(s, a, b) == SubSeq(s, a + 1, b)

StartsWith(s, prefix) ==
  Len(prefix) <= Len(s) /\ SubSeq(s, 1, Len(prefix)) = prefix

EndsWith(s, suffix) ==
  Len(suffix) <= Len(s) /\ SubSeq(s, Len(s) - Len(suffix) + 1, Len(s)) = suffix

\* str.find(sub, start)
Find(s, sub, start) ==
  LET at == {i \in start..(Len(s) - Len(sub)) : Slice(s, i, i + Len(sub)) = sub}
  IN  IF at = {} THEN -1 ELSE CHOOSE i \in at : \A j \in at : i <= j

\* str.rfind(sub)
RFind(s, sub) ==
  LET at == {i \in 0..(Len(s) - Len(sub)) : Slice(s, i, i + Len(sub)) = sub}
  IN  IF at = {} THEN -1 ELSE CHOOSE i \in at : \A j \in at : i >= j

\* sub in s
Contains(s, sub) == Find(s, sub, 0) # -1

\* str.replace(sub, "")
RECURSIVE Remove(_, _)
Remove(s, sub) ==
  IF Len(s) < Len(sub) \/ s = <<>> THEN s
  ELSE IF StartsWith(s, sub) THEN Remove(SubSeq(s, Len(sub) + 1, Len(s)), sub)
  ELSE <<Head(s)>> \o Remove(Tail(s), sub)

\* str.lstrip, str.rstrip and str.strip of whitespace
LStrip(s) ==
  LET rest == {i \in 1..Len(s) : s[i] \notin Whitespace}
  IN  IF rest = {} THEN <<>>
      ELSE SubSeq(s, CHOOSE i \in rest : \A j \in rest : i <= j, Len(s))

RStrip(s) ==
  LET rest == {i \in 1..Len(s) : s[i] \notin Whitespace}
  IN  IF rest = {} THEN <<>>
      ELSE SubSeq(s, 1, CHOOSE i \in rest : \A j \in rest : i >= j)

Strip(s) == LStrip(RStrip(s))

\* str.split(sep) for a separator of one token
RECURSIVE Split(_, _)
Split(s, sep) ==
  LET at == Find(s, <<sep>>, 0)
  IN  IF at = -1 THEN <<s>>
      ELSE <<Slice(s, 0, at)>> \o Split(Slice(s, at + 1, Len(s)), sep)

\* JSON values as json.loads builds them, tagged with their Python type: a
\* list holds a sequence of values, a dict a function from keys to values, a
\* str its tokens, a number and a literal the word read.
JsonList(items) == [t |-> "list", v |-> items]

JsonDict(members) == [t |-> "dict", v |-> members]

JsonStr(s) == [t |-> "str", v |-> s]

JsonWord(t, word) == [t |-> t, v |-> word]

NumberWords == {"1", "2", "42"}

LiteralWords == {"null", "true", "false"}

\* json.JSONDecodeError
DecodeError == [ok |-> FALSE, val |-> JsonWord("none", ""), next |-> 0]

Decoded(val, next) == [ok |-> TRUE, val |-> val, next |-> next]

\* The first position from i on (1-based) that holds no JSON whitespace.
SkipWhitespace(s, i) ==
  LET rest == {j \in i..Len(s) : s[j] \notin Whitespace}
  IN  IF rest = {} THEN Len(s) + 1 ELSE CHOOSE j \in rest : \A l \in rest : j <= l

\* A string from its opening quote at i; control characters end the parse.
ParseString(s, i) ==
  LET closing == {j \in (i + 1)..Len(s) : s[j] = "\""}
      j == CHOOSE c \in closing : \A d \in closing : c <= d
  IN  IF closing = {} THEN DecodeError
      ELSE IF \E l \in (i + 1)..(j - 1) : s[l] \in {"\n", "\t", "\r"} THEN DecodeError
      ELSE Decoded(JsonStr(SubSeq(s, i + 1, j - 1)), j + 1)

RECURSIVE ParseValue(_, _)
RECURSIVE ParseElements(_, _, _)
RECURSIVE ParseMembers(_, _, _)

\* The value that starts at i.
ParseValue(s, i) ==
  IF i > Len(s) THEN DecodeError
  ELSE IF s[i] = "[" THEN
    LET j == SkipWhitespace(s, i + 1)
    IN  IF j <= Len(s) /\ s[j] = "]" THEN Decoded(JsonList(<<>>), j + 1)
        ELSE ParseElements(s, j, <<>>)
  ELSE IF s[i] = "{" THEN
    LET j == SkipWhitespace(s, i + 1)
    IN  IF j <= Len(s) /\ s[j] = "}" THEN Decoded(JsonDict(<<>>), j + 1)
        ELSE ParseMembers(s, j, <<>>)
  ELSE IF s[i] = "\"" THEN ParseString(s, i)
  ELSE IF s[i] \in NumberWords THEN Decoded(JsonWord("int", s[i]), i + 1)
  ELSE IF s[i] \in LiteralWords THEN Decoded(JsonWord("literal", s[i]), i + 1)
  ELSE DecodeError

\* The elements of an array from the element at i, after those of `items`.
ParseElements(s, i, items) ==
  LET element == ParseValue(s, i)
      j == SkipWhitespace(s, element.next)
  IN  IF ~element.ok \/ j > Len(s) THEN DecodeError
      ELSE IF s[j] = "," THEN
        ParseElements(s, SkipWhitespace(s, j + 1), Append(items, element.val))
      ELSE IF s[j] = "]" THEN Decoded(JsonList(Append(items, element.val)), j + 1)
      ELSE DecodeError

\* The members of an object from the key at i, after those of `members`; a
\* repeated key keeps its last value.
ParseMembers(s, i, members) ==
  IF i > Len(s) \/ s[i] # "\"" THEN DecodeError
  ELSE
    LET key == ParseString(s, i)
        colon == SkipWhitespace(s, key.next)
    IN  IF ~key.ok \/ colon > Len(s) \/ s[colon] # ":" THEN DecodeError
        ELSE
          LET member == ParseValue(s, SkipWhitespace(s, colon + 1))
              j == SkipWhitespace(s, member.next)
              grown == [name \in (DOMAIN members) \cup {key.val.v} |->
                          IF name = key.val.v THEN member.val ELSE members[name]]
          IN  IF ~member.ok \/ j > Len(s) THEN DecodeError
              ELSE IF s[j] = "," THEN ParseMembers(s, SkipWhitespace(s, j + 1), grown)
              ELSE IF s[j] = "}" THEN Decoded(JsonDict(grown), j + 1)
              ELSE DecodeError

\* json.loads: one value with nothing but whitespace around it
JsonLoads(s) ==
  LET parsed == ParseValue(s, SkipWhitespace(s, 1))
  IN  IF parsed.ok /\ SkipWhitespace(s, parsed.next) > Len(s) THEN parsed
      ELSE DecodeError

\* ------------------------------------------------- structured extraction
\* The code fence token (three backquotes) and the fence that names json.
Fence == "<fence>"

FenceJson == <<Fence, "json">>

\* generate_test_cases, lines 546-567: the text between the first fence and
\* the next one, or the text with the fence taken out when none closes it.
Unfenced(text, fence) ==
  LET start_idx == Find(text, fence, 0)
      end_idx == Find(text, <<Fence>>, start_idx + Len(fence))
  IN  IF end_idx # -1 THEN Strip(Slice(text, start_idx + Len(fence), end_idx))
      ELSE Strip(Remove(text, fence))

\* lines 564-567: a fence left at the end is cut off
WithoutTrailingFence(inner) ==
  Strip(IF EndsWith(inner, <<Fence>>) THEN Strip(Slice(inner, 0, Len(inner) - 1))
        ELSE inner)

\* lines 549-567 on the stripped response
CleanStripped(stripped) ==
  WithoutTrailingFence(
    IF Contains(stripped, FenceJson) THEN Unfenced(stripped, FenceJson)
    ELSE IF Contains(stripped, <<Fence>>) THEN Unfenced(stripped, <<Fence>>)
    ELSE stripped)

\* lines 546-567: cleaned_response
CleanResponse(llm_response) == CleanStripped(Strip(llm_response))

\* lines 574-583: the position behind the bracket that brings the count of
\* open brackets back to zero, or -1; i counts from 0 into potential_json.
RECURSIVE BracketEnd(_, _, _)
BracketEnd(potential_json, i, bracket_count) ==
  IF i >= Len(potential_json) THEN -1
  ELSE IF potential_json[i + 1] = "[" THEN
    BracketEnd(potential_json, i + 1, bracket_count + 1)
  ELSE IF potential_json[i + 1] = "]" THEN
    IF bracket_count - 1 = 0 THEN i + 1
    ELSE BracketEnd(potential_json, i + 1, bracket_count - 1)
  ELSE BracketEnd(potential_json, i + 1, bracket_count)

NoMatch == [found |-> FALSE, group |-> <<>>]

Match(group) == [found |-> TRUE, group |-> group]

\* lines 585-587: potential_json up to end_pos
BalancedCut(potential_json, end_pos) ==
  IF end_pos = -1 THEN NoMatch ELSE Match(Strip(Slice(potential_json, 0, end_pos)))

\* lines 573-587 for the bracket found at bracket_pos
BalancedFrom(cleaned_response, bracket_pos) ==
  IF bracket_pos = -1 THEN NoMatch
  ELSE BalancedCut(Slice(cleaned_response, bracket_pos, Len(cleaned_response)),
                   BracketEnd(Slice(cleaned_response, bracket_pos,
                                    Len(cleaned_response)), 0, 0))

\* lines 571-587: the balanced array that opens at the first bracket
BalancedArray(cleaned_response) ==
  BalancedFrom(cleaned_response, Find(cleaned_response, <<"[">>, 0))

\* re.search(r'\[[\s\S]*?\]', s): from the first bracket to the first closing
\* bracket behind it
ArrayRegex(s) ==
  LET open == Find(s, <<"[">>, 0)
      close == Find(s, <<"]">>, open + 1)
  IN  IF open = -1 \/ close = -1 THEN NoMatch ELSE Match(Slice(s, open, close + 1))

\* re.search(r'\{[\s\S]*\}', s): from the first brace to the last closing brace
ObjectRegex(s) ==
  LET open == Find(s, <<"{">>, 0)
      close == RFind(s, <<"}">>)
  IN  IF open = -1 \/ close < open THEN NoMatch ELSE Match(Slice(s, open, close + 1))

\* lines 644-652: the response from its first bracket or brace on
FromJsonStart(cleaned_response) ==
  LET json_start == Find(cleaned_response, <<"[">>, 0)
      json_obj_start == Find(cleaned_response, <<"{">>, 0)
      cut == IF StartsWith(cleaned_response, <<"[">>) \/ StartsWith(cleaned_response, <<"{">>)
               THEN cleaned_response
             ELSE IF json_start # -1 /\ (json_obj_start = -1 \/ json_start < json_obj_start)
               THEN Slice(cleaned_response, json_start, Len(cleaned_response))
             ELSE IF json_obj_start # -1
               THEN Slice(cleaned_response, json_obj_start, Len(cleaned_response))
             ELSE cleaned_response
  IN  Strip(cut)

\* ------------------------------------------------------ markdown test cases
Key(name) == <<name>>

\* d[key] = val
Put(d, key, val) ==
  [name \in (DOMAIN d) \cup {key} |-> IF name = key THEN val ELSE d[name]]

\* str.lower on the words that have capitals
Lower(word) ==
  IF word = "DOC.TXT" THEN "doc.txt" ELSE IF word = "Steps" THEN "steps" ELSE word

LowerStr(s) == [i \in 1..Len(s) |-> Lower(s[i])]

\* f"TC-{n:03d}"
TestId(n) == <<"TC-00", ToString(n)>>

\* line.split(':', 1)[1].strip() of a line that starts with `label`
AfterLabel(line, label) == Strip(SubSeq(line, Len(label) + 1, Len(line)))

IsStepLine(line) ==
  \/ Len(line) >= 2 /\ line[1] \in NumberWords /\ line[2] = "."
  \/ Len(line) >= 1 /\ line[1] \in {"-", "*", "**"}

\* re.sub(r'^\d+\.\s*', '', line)
DropNumber(line) ==
  IF Len(line) >= 2 /\ line[1] \in NumberWords /\ line[2] = "."
    THEN LStrip(SubSeq(line, 3, Len(line))) ELSE line

\* re.sub(r'^[-*]\s*', '', line): one character, so half of a bold marker
DropBullet(line) ==
  IF line = <<>> THEN line
  ELSE IF line[1] \in {"-", "*"} THEN LStrip(Tail(line))
  ELSE IF line[1] = "**" THEN <<"*">> \o Tail(line)
  ELSE line

\* The first source document named in `grounded`, or "" when none is.
GroundedDoc(grounded, source_documents) ==
  LET named == {i \in 1..Len(source_documents) :
                  Contains(LowerStr(grounded), <<Lower(source_documents[i])>>)}
  IN  IF named = {} THEN ""
      ELSE source_documents[CHOOSE i \in named : \A j \in named : i <= j]

WithSteps(case, steps_list) ==
  IF steps_list # <<>> THEN Put(case, Key("Steps"), JsonList(steps_list)) ELSE case

\* One turn of the loop of _parse_markdown_test_cases on the stripped line,
\* lines 346-410.
ParseStripped(st, line, source_documents) ==
  IF line = <<>> THEN st
  ELSE IF StartsWith(line, <<"Test_ID", ":">>) THEN
    [test_cases |-> IF DOMAIN st.current_case # {}
                      THEN Append(st.test_cases,
                                  JsonDict(WithSteps(st.current_case, st.steps_list)))
                      ELSE st.test_cases,
     current_case |->
       Put(Put(<<>>, Key("Test_ID"), JsonStr(AfterLabel(line, <<"Test_ID", ":">>))),
           Key("Grounded_In"),
           JsonStr(<<IF source_documents # <<>> THEN source_documents[1]
                     ELSE "unknown">>)),
     current_field |-> st.current_field,
     steps_list |-> <<>>]
  ELSE IF StartsWith(line, <<"Feature", ":">>) THEN
    [st EXCEPT !.current_case =
       Put(@, Key("Feature"), JsonStr(AfterLabel(line, <<"Feature", ":">>)))]
  ELSE IF StartsWith(line, <<"Scenario", ":">>) THEN
    [st EXCEPT !.current_case =
       Put(@, Key("Scenario"), JsonStr(AfterLabel(line, <<"Scenario", ":">>)))]
  ELSE IF StartsWith(line, <<"Steps", ":">>) THEN
    [st EXCEPT !.current_field = "steps", !.steps_list = <<>>]
  ELSE IF \/ StartsWith(line, <<"Expected", " ", "Result", ":">>)
          \/ StartsWith(line, <<"Expected_Result", ":">>) THEN
    LET label == IF line[1] = "Expected" THEN 4 ELSE 2
    IN  [st EXCEPT
           !.current_case =
             Put(WithSteps(@, st.steps_list), Key("Expected_Result"),
                 JsonStr(Strip(SubSeq(line, label + 1, Len(line))))),
           !.steps_list = <<>>,
           !.current_field = "none"]
  ELSE IF \/ StartsWith(line, <<"Grounded", " ", "In", ":">>)
          \/ StartsWith(line, <<"Grounded_In", ":">>) THEN
    LET label == IF line[1] = "Grounded" THEN 4 ELSE 2
        doc == GroundedDoc(Strip(SubSeq(line, label + 1, Len(line))), source_documents)
    IN  IF doc = "" THEN st
        ELSE [st EXCEPT !.current_case = Put(@, Key("Grounded_In"), JsonStr(<<doc>>))]
  ELSE IF st.current_field = "steps" /\ IsStepLine(line) THEN
    LET step_text == Strip(DropBullet(DropNumber(line)))
    IN  IF step_text # <<>>
          THEN [st EXCEPT !.steps_list = Append(@, JsonStr(step_text))]
          ELSE st
  ELSE st

\* lines 344-345: the line is stripped first
ParseLine(st, raw_line, source_documents) ==
  ParseStripped(st, Strip(raw_line), source_documents)

RECURSIVE ParseLines(_, _, _)
ParseLines(st, lines, source_documents) ==
  IF lines = <<>> THEN st
  ELSE ParseLines(ParseLine(st, Head(lines), source_documents), Tail(lines),
                  source_documents)

\* lines 417-420: the last test case gets the fields it lacks
WithTestId(case, n) ==
  IF Key("Test_ID") \in DOMAIN case THEN case
  ELSE Put(case, Key("Test_ID"), JsonStr(TestId(n)))

WithStepsField(case) ==
  IF Key("Steps") \in DOMAIN case THEN case ELSE Put(case, Key("Steps"), JsonList(<<>>))

\* lines 412-423: the test cases once the lines are read
Finished(st) ==
  IF DOMAIN st.current_case # {}
    THEN Append(st.test_cases,
                JsonDict(WithStepsField(WithTestId(WithSteps(st.current_case, st.steps_list),
                                                   Len(st.test_cases) + 1))))
    ELSE st.test_cases

ParsedMarkdown(test_cases) == [found |-> test_cases # <<>>, test_cases |-> test_cases]

\* _parse_markdown_test_cases: the list of test cases, or `found` FALSE for None
ParseMarkdownTestCases(markdown_text, source_documents) ==
  IF markdown_text = <<>> THEN [found |-> FALSE, test_cases |-> <<>>]
  ELSE ParsedMarkdown(Finished(ParseLines(
         [test_cases |-> <<>>, current_case |-> <<>>, current_field |-> "none",
          steps_list |-> <<>>],
         Split(markdown_text, "\n"), source_documents)))

\* ------------------------------------------------------- response formatting
Stages == {"array_scan", "array_regex", "object_regex", "whole_text", "markdown", "raw"}

\* lines 695-704: the record that carries the raw response
RawResponse(llm_response) ==
  JsonDict(Put(Put(Put(<<>>, Key("raw_response"), JsonStr(llm_response)),
                   Key("format"), JsonStr(<<"markdown">>)),
               Key("note"),
               JsonStr(<<"LLM returned markdown instead of JSON. Frontend will attempt to parse it.">>)))

Extracted(stage, test_cases) ==
  [status |-> "success", stage |-> stage, test_cases |-> test_cases]

\* json.loads of what a stage matched
LoadMatch(match) == IF match.found THEN JsonLoads(Strip(match.group)) ELSE DecodeError

\* lines 673-707: the markdown fallback, then the raw response
MarkdownOrRaw(parsed_markdown, llm_response) ==
  IF parsed_markdown.found
    THEN Extracted("markdown", JsonList(parsed_markdown.test_cases))
    ELSE Extracted("raw", RawResponse(llm_response))

\* ReturnFirst with a whole-text stage that does not catch the error of
\* json.loads, which then reaches the handler's except ValueError
ReturnFirstUncaught(scanned, array, object, whole, llm_response, source_documents) ==
  IF scanned.ok /\ scanned.val.t = "list" THEN Extracted("array_scan", scanned.val)
  ELSE IF array.ok /\ array.val.t = "list" THEN Extracted("array_regex", array.val)
  ELSE IF object.ok THEN Extracted("object_regex", object.val)
  ELSE IF whole.ok THEN Extracted("whole_text", whole.val)
  ELSE [status |-> "JSONDecodeError", stage |-> "whole_text",
        test_cases |-> JsonWord("none", "")]

\* lines 588-707: the first stage whose value is returned
ReturnFirst(scanned, array, object, whole, llm_response, source_documents) ==
  IF scanned.ok /\ scanned.val.t = "list" THEN Extracted("array_scan", scanned.val)
  ELSE IF array.ok /\ array.val.t = "list" THEN Extracted("array_regex", array.val)
  ELSE IF object.ok THEN Extracted("object_regex", object.val)
  ELSE IF whole.ok THEN Extracted("whole_text", whole.val)
  ELSE MarkdownOrRaw(ParseMarkdownTestCases(llm_response, source_documents),
                     llm_response)

\* lines 570-707 on the cleaned response
ExtractCleaned(cleaned_response, llm_response, source_documents) ==
  ReturnFirst(LoadMatch(BalancedArray(cleaned_response)),
              LoadMatch(ArrayRegex(cleaned_response)),
              LoadMatch(ObjectRegex(cleaned_response)),
              JsonLoads(FromJsonStart(cleaned_response)),
              llm_response, source_documents)

\* generate_test_cases, lines 543-707: the test_cases of the JSON response and
\* the stage that produced them
ExtractStructured(llm_response, source_documents) ==
  ExtractCleaned(CleanResponse(llm_response), llm_response, source_documents)

\* lines 535-539: the sources of the contexts, each once, in order
RECURSIVE SourceDocuments(_)
SourceDocuments(contexts) ==
  IF contexts = <<>> THEN <<>>
  ELSE LET before == SourceDocuments(SubSeq(contexts, 1, Len(contexts) - 1))
           ctx == contexts[Len(contexts)]
           source == IF "source" \in DOMAIN ctx.metadata
                       THEN ctx.metadata["source"] ELSE "unknown"
       IN  IF \E i \in 1..Len(before) : before[i] = source THEN before
           ELSE Append(before, source)

\* ----------------------------------------------------------- LLM responses
MaxRecords == 2

Quoted(s) == <<"\"">> \o s \o <<"\"">>

Member(name, value) == Quoted(<<name>>) \o <<":", " ">> \o value

Object(members) == <<"{">> \o Join(members, <<",", " ">>) \o <<"}">>

Array(elements) == <<"[">> \o Join(elements, <<",", " ">>) \o <<"]">>

\* Test case objects as an LLM writes them; the second has a bracket inside a
\* string.
RecordTexts ==
  {Object(<<Member("Test_ID", Quoted(<<"TC-001">>)),
            Member("Steps", Array(<<Quoted(<<"open">>), Quoted(<<"click">>)>>))>>),
   Object(<<Member("Test_ID", Quoted(<<"TC-002">>)),
            Member("Scenario", Quoted(<<"a", " ", "]", " ", "b">>))>>),
   Object(<<Member("Test_ID", Quoted(<<"TC-003">>)),
            Member("Grounded_In", Quoted(<<"doc.txt">>))>>)}

ArrayTexts == {Array(records) : records \in SeqsUpTo(RecordTexts, MaxRecords)}

MarkdownText ==
  <<"Test_ID", ":", " ", "TC-001", "\n",
    "Feature", ":", " ", "Login", "\n",
    "Steps", ":", "\n",
    "1", ".", " ", "open", "\n",
    "-", " ", "click", "\n",
    "Expected", " ", "Result", ":", " ", "ok", "\n",
    "Grounded", " ", "In", ":", " ", "DOC.TXT">>

OtherTexts ==
  {Object(<<Member("Test_ID", Quoted(<<"TC-001">>))>>),
   Quoted(<<"hello">>),
   <<"null">>,
   <<"42">>,
   Array(<<<<"1">>, <<"2">>>>),
   <<"[", "{">> \o Member("Test_ID", Quoted(<<"TC-001">>)),
   MarkdownText,
   <<"**", "Test_ID", ":", "**", " ", "TC-001", "\n", "Steps", ":", "\n", "**", "1", ".", "**", " ", "open">>,
   <<"Sorry", ",", " ", "no", " ", "test", " ", "cases">>,
   <<" ">>}

Prefixes == {<<>>, <<"Here", ":", "\n">>, <<"See", " ", "[", "1", "]", "\n">>}

Opens == {<<>>, <<Fence, "json", "\n">>, <<Fence, "\n">>}

Closes == {<<>>, <<"\n", Fence>>}

Suffixes == {<<>>, <<"\n", "Done">>}

\* What the LLM may answer: never the empty string (line 531).
LlmTexts ==
  {p \o o \o b \o c \o s :
     p \in Prefixes, o \in Opens, b \in ArrayTexts \cup OtherTexts,
     c \in Closes, s \in Suffixes} \ {<<>>}

OutputFormats == {"json", "markdown"}

\* generate_test_cases has retrieved one context for its query from an index
\* of one chunk and the LLM has answered `text`.
InitExtract ==
  \E text \in LlmTexts :
    LET chunk == CHOOSE c \in Chunks : c.text = "a"
        stored == AddInMemory(<<>>, <<>>, <<chunk>>, "conforming")
        disk == PersistFiles(stored.index, stored.metadata, NoIndexFile,
                             NoMetadataFile, "none")
        rag == GenerateWithRagResult(stored.index, stored.metadata, "a", 1, "json")
    IN  /\ up = TRUE
        /\ index = stored.index
        /\ metadata = stored.metadata
        /\ indexFile = disk.indexFile
        /\ metadataFile = disk.metadataFile
        /\ result = [op |-> "llm_generate", status |-> rag.status,
                     out |-> rag.contexts, q |-> "a", k |-> 1, text |-> text]
        /\ hits = SearchHits(stored.index, stored.metadata, "a", 1)
        /\ added = <<chunk>>
        /\ committed = [index |-> stored.index, metadata |-> stored.metadata]
        /\ tasks = NoTasks
        /\ parse = NoParse

\* generate_test_cases, lines 534-717: the response built from the LLM's text
FormatResponse ==
  \E format \in OutputFormats :
    LET source_documents == SourceDocuments(result.out)
        extracted == IF format = "json"
                       THEN ExtractStructured(result.text, source_documents)
                       ELSE [status |-> "success", stage |-> "none",
                             test_cases |-> JsonStr(result.text)]
    IN  /\ up
        /\ result.op = "llm_generate"
        /\ result.status = "ok"
        /\ result' = [op |-> "generate_test_cases", status |-> extracted.status,
                      out |-> result.out, q |-> result.q, k |-> result.k,
                      text |-> result.text, format |-> format,
                      stage |-> extracted.stage, test_cases |-> extracted.test_cases,
                      grounded_in |-> source_documents]
        /\ UNCHANGED <<up, index, metadata, indexFile, metadataFile, hits, added,
                       committed, tasks, parse>>

NextExtract == FormatResponse

SpecExtract == InitExtract /\ [][NextExtract]_vars

\* The Python type of a test_cases value and of the elements of a list.
IsListOfRecords(val) ==
  val.t = "list" /\ \A i \in 1..Len(val.v) : val.v[i].t = "dict"

IsRawResponse(val, llm_response) ==
  /\ val.t = "dict"
  /\ DOMAIN val.v = {Key("raw_response"), Key("format"), Key("note")}
  /\ val.v[Key("raw_response")] = JsonStr(llm_response)

\* C18: for every text of the LLM the extraction ends with a successful
\* response built by one of its stages, the last of which takes any text.
ExtractionTotal ==
  (result.op = "generate_test_cases" /\ result.format = "json") =>
    /\ result.status = "success"
    /\ result.stage \in Stages
    /\ result.test_cases.t \in {"list", "dict", "str", "int", "literal"}
    /\ result.stage = "raw" => IsRawResponse(result.test_cases, result.text)

ExtractionTotalWitness ==
  /\ result.op = "generate_test_cases"
  /\ result.format = "json"
  /\ result.stage = "raw"
  /\ Contains(result.text, <<"[">>)
  /\ Contains(result.text, <<Fence>>)

\* C19: the extracted test_cases are a list of record objects or the record
\* that carries the raw response; no JSON stage returns a bare object, a
\* scalar or null.
ExtractedListOrRaw ==
  (result.op = "generate_test_cases" /\ result.format = "json") =>
    \/ IsListOfRecords(result.test_cases)
    \/ result.stage = "raw" /\ IsRawResponse(result.test_cases, result.text)

\* C20: a text that is a JSON array of record objects is returned as the list
\* json.loads reads from it: the same records in the same order.
ExtractionIdempotent ==
  (result.op = "generate_test_cases" /\ result.format = "json") =>
    LET direct == JsonLoads(result.text)
    IN  (direct.ok /\ IsListOfRecords(direct.val)) =>
          result.test_cases = direct.val

\* ---------------------------------------------------- concurrent requests
\* Every handler is an `async def` that uvicorn runs on its one event loop: a
\* handler keeps the loop from where it starts or resumes until it awaits or
\* returns. The positions below are the statements of a handler that read or
\* write the index or its files.

\* Positions at which a handler may be left for another one.
SuspendedAnywhere(pc) == TRUE

\* Suspended with one more await between index.add and the metadata loop
SuspendedInAdd(pc) == pc \in {"new", "await_read", "metadata_append", "done"}

\* Positions at which a request does not hold the event loop: before its start,
\* at `await file.read()`, after its return.
Suspended(pc) == pc \in {"new", "await_read", "done"}

\* Request r may take its step at position pc.
Runnable(r, pc) ==
  /\ up
  /\ tasks.req[r].pc = pc
  /\ tasks.loop \in {0, r}

\* Request r goes on to position pc with its fields as in `req`.
Proceed(r, req, pc) ==
  tasks' = [loop |-> IF Suspended(pc) THEN 0 ELSE r,
            req |-> [tasks.req EXCEPT ![r] = [req EXCEPT !.pc = pc]]]

\* The vectors that the uploads in flight will still add.
Pending ==
  LET n(r) == IF tasks.req[r].kind = "upload" /\ tasks.req[r].pc \in {"new", "await_read"}
                THEN Len(tasks.req[r].chunks) ELSE 0
      RECURSIVE Sum(_)
      Sum(r) == IF r = 0 THEN 0 ELSE n(r) + Sum(r - 1)
  IN  Sum(MaxRequests)

\* The store after the first upload of one chunk has returned.
StartStore ==
  LET chunk == CHOOSE c \in Chunks : c.text = "b"
      mem == AddInMemory(<<>>, <<>>, <<chunk>>, "conforming")
      disk == PersistFiles(mem.index, mem.metadata, NoIndexFile, NoMetadataFile, "none")
  IN  [index |-> mem.index, metadata |-> mem.metadata,
       indexFile |-> disk.indexFile, metadataFile |-> disk.metadataFile,
       added |-> <<chunk>>]

\* One chunk is stored and no request is in flight.
InitAsync ==
  /\ up = TRUE
  /\ index = StartStore.index
  /\ metadata = StartStore.metadata
  /\ indexFile = StartStore.indexFile
  /\ metadataFile = StartStore.metadataFile
  /\ result = [Outcome("add", "ok") EXCEPT !.n = 1, !.mode = "conforming", !.fault = "none"]
  /\ hits = <<>>
  /\ added = StartStore.added
  /\ committed = [index |-> StartStore.index, metadata |-> StartStore.metadata]
  /\ tasks = NoTasks
  /\ parse = NoParse

\* A request arrives: POST /upload or /build_kb with the chunks of its files,
\* DELETE /clear, or POST /qa with a question.
Arrive ==
  \E r \in 1..MaxRequests :
    /\ up
    /\ tasks.req[r].kind = "none"
    /\ r > 1 => tasks.req[r - 1].kind # "none"
    /\ \/ \E chunks \in Batches \ {<<>>} :
            /\ Len(index) + Pending + Len(chunks) <= MaxEntries
            /\ tasks' = [tasks EXCEPT !.req[r] =
                           [NoRequest EXCEPT !.kind = "upload", !.pc = "new",
                                             !.chunks = chunks]]
       \/ tasks' = [tasks EXCEPT !.req[r] =
                      [NoRequest EXCEPT !.kind = "clear", !.pc = "new"]]
       \/ \E q \in Queries, k \in {1, MaxK} :
            tasks' = [tasks EXCEPT !.req[r] =
                        [NoRequest EXCEPT !.kind = "qa", !.pc = "new", !.q = q, !.k = k]]
    /\ UNCHANGED <<up, index, metadata, indexFile, metadataFile, result, hits, added,
                   committed, parse>>

\* upload_document up to `await file.read()`
UploadBegin ==
  \E r \in 1..MaxRequests :
    /\ Runnable(r, "new")
    /\ tasks.req[r].kind = "upload"
    /\ Proceed(r, tasks.req[r], "await_read")
    /\ UNCHANGED <<up, index, metadata, indexFile, metadataFile, result, hits, added,
                   committed, parse>>

\* upload_document resumes, parses and chunks; add_documents embeds the chunks
\* and adds the vectors (vectordb.py 74)
UploadIndexAdd ==
  \E r \in 1..MaxRequests :
    LET texts == [i \in 1..Len(tasks.req[r].chunks) |-> tasks.req[r].chunks[i].text]
    IN  /\ Runnable(r, "await_read")
        /\ index' = index \o GetEmbeddings(texts, "conforming")
        /\ Proceed(r, tasks.req[r], "metadata_append")
        /\ UNCHANGED <<up, metadata, indexFile, metadataFile, result, hits, added,
                       committed, parse>>

\* add_documents appends the metadata (vectordb.py 77-82)
UploadMetadataAppend ==
  \E r \in 1..MaxRequests :
    LET chunks == tasks.req[r].chunks
    IN  /\ Runnable(r, "metadata_append")
        /\ metadata' = metadata \o [i \in 1..Len(chunks) |-> MetadataWithText(chunks[i])]
        /\ added' = added \o chunks
        /\ Proceed(r, tasks.req[r], "write_index")
        /\ UNCHANGED <<up, index, indexFile, metadataFile, result, hits, committed, parse>>

\* persist writes the index file (vectordb.py 129)
UploadWriteIndex ==
  \E r \in 1..MaxRequests :
    /\ Runnable(r, "write_index")
    /\ indexFile' = WriteIndex(index)
    /\ Proceed(r, tasks.req[r], "write_metadata")
    /\ UNCHANGED <<up, index, metadata, metadataFile, result, hits, added, committed, parse>>

\* persist writes the sidecar (vectordb.py 133-134) and the handler returns
UploadWriteMetadata ==
  \E r \in 1..MaxRequests :
    /\ Runnable(r, "write_metadata")
    /\ metadataFile' = JsonDump(metadata)
    /\ committed' = [index |-> index, metadata |-> metadata]
    /\ result' = [Outcome("add", "ok") EXCEPT
                    !.n = Len(tasks.req[r].chunks), !.mode = "conforming", !.fault = "none"]
    /\ Proceed(r, tasks.req[r], "done")
    /\ UNCHANGED <<up, index, metadata, indexFile, hits, added, parse>>

\* clear_knowledge_base reads the stats and returns when the index is empty
\* (ingestion.py 211-219)
ClearBegin ==
  \E r \in 1..MaxRequests :
    /\ Runnable(r, "new")
    /\ tasks.req[r].kind = "clear"
    /\ IF GetStats(index).total_documents = 0
         THEN /\ Proceed(r, tasks.req[r], "done")
              /\ result' = Outcome("clear", "already_empty")
         ELSE /\ Proceed(r, tasks.req[r], "unlink_index")
              /\ UNCHANGED result
    /\ UNCHANGED <<up, index, metadata, indexFile, metadataFile, hits, added, committed, parse>>

\* ingestion.py 225-227
ClearUnlinkIndex ==
  \E r \in 1..MaxRequests :
    /\ Runnable(r, "unlink_index")
    /\ indexFile' = NoIndexFile
    /\ Proceed(r, tasks.req[r], "unlink_metadata")
    /\ UNCHANGED <<up, index, metadata, metadataFile, result, hits, added, committed, parse>>

\* ingestion.py 230-232
ClearUnlinkMetadata ==
  \E r \in 1..MaxRequests :
    /\ Runnable(r, "unlink_metadata")
    /\ metadataFile' = NoMetadataFile
    /\ Proceed(r, tasks.req[r], "initialize")
    /\ UNCHANGED <<up, index, metadata, indexFile, result, hits, added, committed, parse>>

\* ingestion.py 235-241: _initialize_index and the response
ClearInitialize ==
  \E r \in 1..MaxRequests :
    LET mem == InitializeIndex(index, metadata, indexFile, metadataFile)
    IN  /\ Runnable(r, "initialize")
        /\ index' = mem.index
        /\ metadata' = mem.metadata
        /\ added' = <<>>
        /\ committed' = NothingCommitted
        /\ result' = Outcome("clear", mem.status)
        /\ Proceed(r, tasks.req[r], "done")
        /\ UNCHANGED <<up, indexFile, metadataFile, hits, parse>>

\* search, lines 109-118, on the pairs the index returned
CollectResults(pairs, md) ==
  LET kept == SelectSeq(pairs, LAMBDA p : p.idx < Len(md) /\ p.idx >= 0)
  IN  [j \in 1..Len(kept) |->
         [text |-> DictPopValue(PyIndex(md, kept[j].idx), "text", ""),
          metadata |-> DictPopRest(PyIndex(md, kept[j].idx), "text"),
          score |-> kept[j].dist]]

\* generate_answer: retrieve_context, search up to the index's answer
\* (vectordb.py 98-106)
QaSearch ==
  \E r \in 1..MaxRequests :
    /\ Runnable(r, "new")
    /\ tasks.req[r].kind = "qa"
    /\ IF Len(index) = 0
         THEN /\ Proceed(r, tasks.req[r], "done")
              /\ result' = [Outcome("search", "ok") EXCEPT
                              !.q = tasks.req[r].q, !.k = tasks.req[r].k]
         ELSE /\ Proceed(r, [tasks.req[r] EXCEPT !.pairs =
                               FaissSearch(index, GetEmbedding(tasks.req[r].q),
                                           tasks.req[r].k)],
                         "collect")
              /\ UNCHANGED result
    /\ UNCHANGED <<up, index, metadata, indexFile, metadataFile, hits, added, committed, parse>>

\* search builds its results from the metadata (vectordb.py 108-120)
QaCollect ==
  \E r \in 1..MaxRequests :
    LET out == CollectResults(tasks.req[r].pairs, metadata)
    IN  /\ Runnable(r, "collect")
        /\ Proceed(r, [tasks.req[r] EXCEPT !.out = out], "done")
        /\ result' = [Outcome("search", "ok") EXCEPT
                        !.out = out, !.q = tasks.req[r].q, !.k = tasks.req[r].k]
        /\ UNCHANGED <<up, index, metadata, indexFile, metadataFile, hits, added,
                       committed, parse>>

NextAsync ==
  \/ Arrive
  \/ UploadBegin \/ UploadIndexAdd \/ UploadMetadataAppend
  \/ UploadWriteIndex \/ UploadWriteMetadata
  \/ ClearBegin \/ ClearUnlinkIndex \/ ClearUnlinkMetadata \/ ClearInitialize
  \/ QaSearch \/ QaCollect

SpecAsync == InitAsync /\ [][NextAsync]_vars

\* The index in memory and on disk.
Store ==
  [index |-> index, metadata |-> metadata, indexFile |-> indexFile,
   metadataFile |-> metadataFile]

EmptyStore ==
  [index |-> <<>>, metadata |-> <<>>, indexFile |-> NoIndexFile,
   metadataFile |-> NoMetadataFile]

\* The store the requests found.
FirstStore ==
  [index |-> StartStore.index, metadata |-> StartStore.metadata,
   indexFile |-> StartStore.indexFile, metadataFile |-> StartStore.metadataFile]

\* The store after request `req` ran alone on store s.
SerialStep(s, req) ==
  IF req.kind = "upload" THEN
    LET mem == AddInMemory(s.index, s.metadata, req.chunks, "conforming")
        disk == PersistFiles(mem.index, mem.metadata, s.indexFile, s.metadataFile, "none")
    IN  [index |-> mem.index, metadata |-> mem.metadata,
         indexFile |-> disk.indexFile, metadataFile |-> disk.metadataFile]
  ELSE IF req.kind = "clear" /\ Len(s.index) > 0 THEN EmptyStore
  ELSE s

\* The store after the requests of `order` ran one after the other.
RECURSIVE Serial(_, _)
Serial(s, order) ==
  IF Len(order) = 0 THEN s
  ELSE Serial(SerialStep(s, tasks.req[order[1]]), SubSeq(order, 2, Len(order)))

\* The orders in which the requests of S can run one after the other.
Orders(S) ==
  {order \in [1..Cardinality(S) -> S] :
     \A i, j \in 1..Cardinality(S) : i # j => order[i] # order[j]}

\* C15: a question answered while uploads are in flight gets the results of
\* an index that holds each batch whole or not at all: the results of the
\* store that some of the upload and clear requests, run one after the other,
\* leave behind.
SearchSeesWholeAdds ==
  \A r \in 1..MaxRequests :
    (tasks.req[r].kind = "qa" /\ tasks.req[r].pc = "done") =>
      \E W \in SUBSET {w \in 1..MaxRequests : tasks.req[w].kind \in {"upload", "clear"}} :
        \E order \in Orders(W) :
          tasks.req[r].out =
            SearchResults(Serial(FirstStore, order).index,
                          Serial(FirstStore, order).metadata,
                          tasks.req[r].q, tasks.req[r].k)

SearchSeesWholeAddsWitness ==
  \E r, u \in 1..MaxRequests :
    /\ u < r
    /\ tasks.req[r].kind = "qa"
    /\ tasks.req[r].pc = "done"
    /\ tasks.req[r].k = MaxK
    /\ Len(tasks.req[r].out) = 1
    /\ tasks.req[u].kind = "upload"
    /\ tasks.req[u].pc = "await_read"

\* C16: whenever no handler is between its first and its last access, the store
\* is the one that the finished upload and clear requests leave behind when
\* run one after the other in some order; vectors and metadata have the same
\* length and a fresh start reads the memory's content from the files.
WritersSerialized ==
  (\A r \in 1..MaxRequests : tasks.req[r].pc \in {"none", "new", "await_read", "done"}) =>
    /\ \E order \in Orders({w \in 1..MaxRequests :
                             /\ tasks.req[w].kind \in {"upload", "clear"}
                             /\ tasks.req[w].pc = "done"}) :
         Serial(FirstStore, order) = Store
    /\ Len(index) = Len(metadata)
    /\ LET fresh == InitializeIndex(<<>>, <<>>, indexFile, metadataFile)
       IN  fresh.status = "ok" /\ fresh.index = index /\ fresh.metadata = metadata

WritersSerializedWitness ==
  \E u, v \in 1..MaxRequests :
    /\ u < v
    /\ tasks.req[u].kind = "upload"
    /\ tasks.req[v].kind = "upload"
    /\ tasks.req[u].pc = "done"
    /\ tasks.req[v].pc = "done"
    /\ tasks.req[u].chunks # tasks.req[v].chunks
    /\ added = StartStore.added \o tasks.req[v].chunks \o tasks.req[u].chunks

\* ------------------------------------------------------ claims on extraction
\* The LLM texts that hold `body` inside a code fence that opens with `open`,
\* behind `prefix` and before `suffix`.
Fenced(prefix, open, body, suffix) == prefix \o open \o body \o <<"\n", Fence>> \o suffix

\* C21: of a text with a fenced block only what stands between the opening
\* fence and the next fence is used, so a JSON array of records inside the
\* fence is returned as those records whatever prose surrounds the fence; a
\* text without a fence is used as it is (stripped).
FencedArrayReturned ==
  (result.op = "generate_test_cases" /\ result.format = "json") =>
    /\ \A prefix \in Prefixes, open \in Opens \ {<<>>},
          body \in ArrayTexts \cup OtherTexts, suffix \in Suffixes :
         result.text = Fenced(prefix, open, body, suffix) =>
           /\ CleanResponse(result.text) = Strip(body)
           /\ body \in ArrayTexts => result.test_cases = JsonLoads(body).val
    /\ ~Contains(result.text, <<Fence>>) => CleanResponse(result.text) = Strip(result.text)

\* ------------------------------------------- the frontend's markdown parser
\* parse_markdown_test_cases of the frontend reads what the backend hands over
\* as raw_response or as a markdown string. A label in bold: **Label:**
Bold(label) == <<"**">> \o label \o <<"**">>

\* line.startswith('Label:') or line.startswith('**Label:**')
Labelled(line, label) == StartsWith(line, label) \/ StartsWith(line, Bold(label))

\* re.sub(r'\*\*', '', s)
Unbold(s) == Remove(s, <<"**">>)

\* re.split(r':\s*', line, 1)[1] of a line that holds a colon
AfterColon(line) == LStrip(Slice(line, Find(line, <<":">>, 0) + 1, Len(line)))

\* frontend lines 291-295 and alike: the value is stripped first and the bold
\* markers are taken out afterwards
FrontendValue(line) == Unbold(Strip(AfterColon(line)))

\* One turn of the loop of the frontend's parse_markdown_test_cases on the
\* stripped line, lines 280-348.
FrontendParseStripped(st, line) ==
  IF line = <<>> THEN st
  ELSE IF Labelled(line, <<"Test_ID", ":">>) THEN
    [test_cases |-> IF DOMAIN st.current_case # {}
                      THEN Append(st.test_cases,
                                  JsonDict(WithSteps(st.current_case, st.steps_list)))
                      ELSE st.test_cases,
     current_case |-> Put(<<>>, Key("Test_ID"), JsonStr(FrontendValue(line))),
     current_field |-> st.current_field,
     steps_list |-> <<>>]
  ELSE IF Labelled(line, <<"Feature", ":">>) THEN
    [st EXCEPT !.current_case = Put(@, Key("Feature"), JsonStr(FrontendValue(line)))]
  ELSE IF Labelled(line, <<"Scenario", ":">>) THEN
    [st EXCEPT !.current_case = Put(@, Key("Scenario"), JsonStr(FrontendValue(line)))]
  ELSE IF \/ StartsWith(LowerStr(line), <<"steps", ":">>)
          \/ StartsWith(line, Bold(<<"Steps", ":">>)) THEN
    [st EXCEPT !.current_field = "steps", !.steps_list = <<>>]
  ELSE IF \/ Labelled(line, <<"Expected", " ", "Result", ":">>)
          \/ Labelled(line, <<"Expected_Result", ":">>) THEN
    [st EXCEPT
       !.current_case = Put(WithSteps(@, st.steps_list), Key("Expected_Result"),
                            JsonStr(FrontendValue(line))),
       !.steps_list = <<>>,
       !.current_field = "none"]
  ELSE IF \/ Labelled(line, <<"Grounded", " ", "In", ":">>)
          \/ Labelled(line, <<"Grounded_In", ":">>) THEN
    [st EXCEPT !.current_case = Put(@, Key("Grounded_In"), JsonStr(FrontendValue(line)))]
  ELSE IF st.current_field = "steps" /\ IsStepLine(line) THEN
    LET step_text == Strip(Unbold(DropBullet(DropNumber(line))))
    IN  IF step_text # <<>>
          THEN [st EXCEPT !.steps_list = Append(@, JsonStr(step_text))]
          ELSE st
  ELSE st

\* frontend lines 278-279: the line is stripped first
FrontendParseLine(st, raw_line) == FrontendParseStripped(st, Strip(raw_line))

\* ----------------------------------------------- markdown texts line by line
MaxLines == 4  \* lines of a markdown text

\* Lines as an LLM writes them: labels plain and in bold, values and steps
\* with and without bold, numbered and bulleted steps, a line of prose.
MarkdownLines ==
  {<<"Test_ID", ":", " ", "TC-001">>,
   <<"Test_ID", ":", " ", "TC-002">>,
   <<"**", "Test_ID", ":", "**", " ", "TC-003">>,
   <<"Feature", ":", " ", "**", "Login", "**">>,
   <<"Steps", ":">>,
   <<"1", ".", " ", "open">>,
   <<"-", " ", "**", "click", "**">>,
   <<"Expected_Result", ":", " ", "ok">>,
   <<"Sorry">>}

\* lines 337-340: the locals of a parser before its loop
StartLocals ==
  [test_cases |-> <<>>, current_case |-> <<>>, current_field |-> "none",
   steps_list |-> <<>>]

\* The text read so far.
TextOf(lines) == Join(lines, <<"\n">>)

\* The documents the test cases are grounded in.
GroundedIn == <<"doc.txt">>

\* generate_test_cases has an answer of the LLM to turn into test cases; the
\* answer is built up line by line below.
InitMarkdown ==
  /\ up = TRUE
  /\ index = <<>>
  /\ metadata = <<>>
  /\ indexFile = NoIndexFile
  /\ metadataFile = NoMetadataFile
  /\ result = Outcome("init", "ok")
  /\ hits = <<>>
  /\ added = <<>>
  /\ committed = NothingCommitted
  /\ tasks = NoTasks
  /\ parse = [lines |-> <<>>, backend |-> StartLocals, frontend |-> StartLocals,
              returned |-> FALSE]

\* One turn of the loop over the lines (backend 344-410, frontend 278-348):
\* both parsers read the next line of the same text.
ReadLine ==
  \E line \in MarkdownLines :
    /\ ~parse.returned
    /\ Len(parse.lines) < MaxLines
    /\ parse' = [lines |-> Append(parse.lines, line),
                 backend |-> ParseLine(parse.backend, line, GroundedIn),
                 frontend |-> FrontendParseLine(parse.frontend, line),
                 returned |-> FALSE]
    /\ UNCHANGED <<up, index, metadata, indexFile, metadataFile, result, hits, added,
                   committed, tasks>>

\* session_state.test_cases as the frontend sets it from the test_cases of the
\* response, lines 707-738: a list is kept, a raw response and a string are
\* parsed, a lone dict is wrapped.
SessionTestCases(test_cases_data, parsed) ==
  IF test_cases_data.t = "list" THEN test_cases_data
  ELSE IF test_cases_data.t = "dict" /\ Key("raw_response") \notin DOMAIN test_cases_data.v
    THEN JsonList(<<test_cases_data>>)
  ELSE IF parsed # <<>> THEN JsonList(parsed)
  ELSE JsonList(<<JsonDict(Put(<<>>, Key("raw"),
                               IF test_cases_data.t = "dict"
                                 THEN test_cases_data.v[Key("raw_response")]
                                 ELSE test_cases_data))>>)

\* The text ends: the backend's extraction answers (lines 543-707, its
\* markdown fallback 673-687 included), and the frontend shows the test cases.
ReturnParsed ==
  /\ ~parse.returned
  /\ parse.lines # <<>>
  /\ parse' = [parse EXCEPT !.returned = TRUE]
  /\ result' = [op |-> "parse_markdown", status |-> "ok",
                text |-> TextOf(parse.lines),
                backend |-> ParsedMarkdown(Finished(parse.backend)),
                frontend |-> Finished(parse.frontend),
                extracted |-> ExtractStructured(TextOf(parse.lines), GroundedIn),
                session |-> SessionTestCases(
                              ExtractStructured(TextOf(parse.lines), GroundedIn).test_cases,
                              Finished(parse.frontend))]
  /\ UNCHANGED <<up, index, metadata, indexFile, metadataFile, hits, added,
                 committed, tasks>>

NextMarkdown == ReadLine \/ ReturnParsed

SpecMarkdown == InitMarkdown /\ [][NextMarkdown]_vars

\* ----------------------------------------- what a markdown text asks for
\* A line without the bold marker it may open with.
Unmarked(line) == IF line # <<>> /\ line[1] = "**" THEN Tail(line) ELSE line

\* The field label a line opens with, plain or in bold, or "" when it opens
\* with none.
LabelOf(line) ==
  LET l == Unmarked(line)
  IN  IF Len(l) >= 2 /\ l[2] = ":" /\
         l[1] \in {"Test_ID", "Feature", "Scenario", "Steps", "Expected_Result",
                   "Grounded_In"}
        THEN l[1]
      ELSE IF Len(l) >= 4 /\ l[2] = " " /\ l[4] = ":" /\
              <<l[1], l[3]>> \in {<<"Expected", "Result">>, <<"Grounded", "In">>}
        THEN l[1] \o "_" \o l[3]
      ELSE ""

\* The text behind the label of a label line, without the marker that closes a
\* bold label.
ValueOf(line) ==
  Strip(Unmarked(Slice(line, Find(line, <<":">>, 0) + 1, Len(line))))

\* A numbered or a bulleted line.
IsNumbered(line) == Len(line) >= 2 /\ line[1] \in NumberWords /\ line[2] = "."

IsBulleted(line) == Len(line) >= 1 /\ line[1] \in {"-", "*"}

\* The step of such a line: the text behind its marker.
StepOf(line) == Strip(SubSeq(line, IF IsNumbered(line) THEN 3 ELSE 2, Len(line)))

\* The positions of the label lines of a text.
LabelLines(lines) == {i \in 1..Len(lines) : LabelOf(lines[i]) # ""}

\* Steps are being collected behind `lines`: the last label was Steps.
Collecting(lines) ==
  /\ LabelLines(lines) # {}
  /\ LabelOf(lines[CHOOSE i \in LabelLines(lines) : \A j \in LabelLines(lines) : j <= i])
       = "Steps"

\* The records a text of labelled fields asks for: one for each Test_ID label,
\* with the steps that follow its Steps label up to the next label.
RECURSIVE Records(_, _)
Records(lines, n) ==
  IF n = 0 THEN <<>>
  ELSE LET before == Records(lines, n - 1)
           line == lines[n]
       IN  IF LabelOf(line) = "Test_ID"
             THEN Append(before, [Test_ID |-> ValueOf(line), Steps |-> <<>>])
           ELSE IF before # <<>> /\ (IsNumbered(line) \/ IsBulleted(line)) /\
                   Collecting(SubSeq(lines, 1, n - 1))
             THEN [before EXCEPT ![Len(before)].Steps = Append(@, StepOf(line))]
           ELSE before

\* The text opens a record before anything else: its first label is Test_ID.
RecordsOnly(lines) ==
  /\ LabelLines(lines) # {}
  /\ LabelOf(lines[CHOOSE i \in LabelLines(lines) : \A j \in LabelLines(lines) : i <= j])
       = "Test_ID"

\* The steps of a parsed record, none when it has no Steps field.
StepsOf(case) ==
  IF Key("Steps") \in DOMAIN case.v /\ case.v[Key("Steps")].t = "list"
    THEN [i \in 1..Len(case.v[Key("Steps")].v) |-> case.v[Key("Steps")].v[i].v]
    ELSE <<>>

\* The labels of the text are plain and no record has two Steps labels.
PlainFields(lines) ==
  /\ \A i \in 1..Len(lines) : lines[i][1] # "**"
  /\ \A i, j \in LabelLines(lines) :
       (i < j /\ LabelOf(lines[i]) = "Steps" /\ LabelOf(lines[j]) = "Steps") =>
         \E k \in (i + 1)..(j - 1) : LabelOf(lines[k]) = "Test_ID"

\* C22: of a text of plainly labelled fields without brackets the extractor
\* returns one record for each Test_ID label, in the order of the text, each
\* with the steps that follow its Steps label, markers stripped.
MarkdownFallbackRecords ==
  (result.op = "parse_markdown" /\ RecordsOnly(parse.lines) /\ PlainFields(parse.lines)) =>
    /\ result.extracted.stage = "markdown"
    /\ Len(result.extracted.test_cases.v) = Len(Records(parse.lines, Len(parse.lines)))
    /\ \A i \in 1..Len(result.extracted.test_cases.v) :
         LET case == result.extracted.test_cases.v[i]
             asked == Records(parse.lines, Len(parse.lines))[i]
         IN  /\ Key("Test_ID") \in DOMAIN case.v
             /\ case.v[Key("Test_ID")] = JsonStr(asked.Test_ID)
             /\ StepsOf(case) = asked.Steps

\* The words of ordinary language in the LLM's texts and the tokens that make
\* a text structured: field labels, braces and quotes of JSON objects.
ProseWords == {"Sorry", "Here", "See", "Done"}

StructureTokens ==
  {"Test_ID", "Feature", "Scenario", "Steps", "Expected_Result", "Expected",
   "Grounded_In", "Grounded", "{", "}", "\""}

\* Prose without a field label, without a JSON object and without a code
\* fence, whose only brackets are those of a citation like [1].
IsProse(text) ==
  /\ \E i \in 1..Len(text) : text[i] \in ProseWords
  /\ \A i \in 1..Len(text) : text[i] \notin StructureTokens \cup {Fence}
  /\ \A i \in 1..Len(text) :
       text[i] = "[" => (i + 2 <= Len(text) /\ text[i + 1] = "1" /\ text[i + 2] = "]")

\* C23: of prose without a recognized label the extractor returns the one
\* record that carries the text as it came, marked as not structured; never
\* an empty list, never an error.
TerminalFallback ==
  (result.op = "generate_test_cases" /\ result.format = "json" /\ IsProse(result.text)) =>
    /\ result.status = "success"
    /\ result.stage = "raw"
    /\ IsRawResponse(result.test_cases, result.text)
    /\ result.test_cases.v[Key("format")] = JsonStr(<<"markdown">>)

\* The record has the fields every record must have: a Test_ID and a list of
\* Steps.
HasRequiredFields(case) ==
  /\ Key("Test_ID") \in DOMAIN case.v
  /\ case.v[Key("Test_ID")].t = "str"
  /\ Key("Steps") \in DOMAIN case.v
  /\ case.v[Key("Steps")].t = "list"

\* C24: every record the markdown parsers return, the last and the ones before
\* it, has a Test_ID and a Steps list.
MarkdownRecordsComplete ==
  result.op = "parse_markdown" =>
    /\ \A i \in 1..Len(result.backend.test_cases) :
         HasRequiredFields(result.backend.test_cases[i])
    /\ \A i \in 1..Len(result.frontend) : HasRequiredFields(result.frontend[i])

\* ------------------------------------------------------------------ chunking
\* Texts to chunk are sequences of characters.
MaxText == 4   \* characters of a text to chunk
MaxChunk == 3  \* chunk_size at most

Characters == {"a", ".", " ", "\n"}

\* TextChunker.__init__, lines 29-40: the separators, the empty one last
Separators ==
  <<<<"\n", "\n">>, <<"\n">>, <<".", " ">>, <<"!", " ">>, <<"?", " ">>, <<";", " ">>,
    <<",", " ">>, <<" ">>, <<>>>>

\* str.split(sub) for a separator of one or more characters
RECURSIVE SplitOn(_, _)
SplitOn(s, sub) ==
  IF Find(s, sub, 0) = -1 THEN <<s>>
  ELSE <<Slice(s, 0, Find(s, sub, 0))>>
         \o SplitOn(Slice(s, Find(s, sub, 0) + Len(sub), Len(s)), sub)

\* The strings of a list that are not empty, in order.
NonEmpty(strings) == SelectSeq(strings, LAMBDA s : s # <<>>)

\* The splitter's split on one separator, which stays in front of the piece
\* that follows it; the empty separator splits into characters.
SplitKeeping(text, separator) ==
  IF separator = <<>> THEN [i \in 1..Len(text) |-> <<text[i]>>]
  ELSE NonEmpty([i \in 1..Len(SplitOn(text, separator)) |->
                   IF i = 1 THEN SplitOn(text, separator)[1]
                   ELSE separator \o SplitOn(text, separator)[i]])

RECURSIVE Concat(_)
Concat(docs) == IF docs = <<>> THEN <<>> ELSE Head(docs) \o Concat(Tail(docs))

\* The splitter's join of the pieces of a chunk: stripped, and dropped when
\* nothing is left.
JoinDocs(current_doc) ==
  IF Strip(Concat(current_doc)) = <<>> THEN <<>> ELSE <<Strip(Concat(current_doc))>>

\* The pieces kept for the next chunk: pieces are dropped from the front
\* while they exceed the overlap or leave no room for the piece of length len.
RECURSIVE KeepOverlap(_, _, _, _)
KeepOverlap(current_doc, len, chunk_size, chunk_overlap) ==
  IF \/ Len(Concat(current_doc)) > chunk_overlap
     \/ (Len(Concat(current_doc)) + len > chunk_size /\ Len(Concat(current_doc)) > 0)
    THEN KeepOverlap(Tail(current_doc), len, chunk_size, chunk_overlap)
    ELSE current_doc

\* The splitter's merge of small pieces into chunks of at most chunk_size
\* characters that overlap by at most chunk_overlap.
RECURSIVE MergeSplits(_, _, _, _, _)
MergeSplits(splits, docs, current_doc, chunk_size, chunk_overlap) ==
  IF splits = <<>> THEN docs \o JoinDocs(current_doc)
  ELSE IF Len(Concat(current_doc)) + Len(Head(splits)) > chunk_size /\ current_doc # <<>>
    THEN MergeSplits(Tail(splits), docs \o JoinDocs(current_doc),
                     Append(KeepOverlap(current_doc, Len(Head(splits)), chunk_size,
                                        chunk_overlap),
                            Head(splits)),
                     chunk_size, chunk_overlap)
    ELSE MergeSplits(Tail(splits), docs, Append(current_doc, Head(splits)),
                     chunk_size, chunk_overlap)

\* The first separator that is empty or stands in the text.
SeparatorAt(text, separators) ==
  CHOOSE i \in 1..Len(separators) :
    /\ separators[i] = <<>> \/ Contains(text, separators[i])
    /\ \A j \in 1..(i - 1) : separators[j] # <<>> /\ ~Contains(text, separators[j])

\* RecursiveCharacterTextSplitter.split_text as the chunker configures it
\* (lines 42-48): split on the first separator found, merge the pieces
\* shorter than chunk_size, split the others on the separators that remain.
RECURSIVE SplitText(_, _, _, _)
RECURSIVE SplitPieces(_, _, _, _, _)
SplitText(text, separators, chunk_size, chunk_overlap) ==
  SplitPieces(SplitKeeping(text, separators[SeparatorAt(text, separators)]), <<>>,
              IF separators[SeparatorAt(text, separators)] = <<>> THEN <<>>
              ELSE SubSeq(separators, SeparatorAt(text, separators) + 1, Len(separators)),
              chunk_size, chunk_overlap)

SplitPieces(splits, good_splits, new_separators, chunk_size, chunk_overlap) ==
  IF splits = <<>>
    THEN MergeSplits(good_splits, <<>>, <<>>, chunk_size, chunk_overlap)
  ELSE IF Len(Head(splits)) < chunk_size
    THEN SplitPieces(Tail(splits), Append(good_splits, Head(splits)), new_separators,
                     chunk_size, chunk_overlap)
  ELSE MergeSplits(good_splits, <<>>, <<>>, chunk_size, chunk_overlap)
         \o (IF new_separators = <<>> THEN <<Head(splits)>>
             ELSE SplitText(Head(splits), new_separators, chunk_size, chunk_overlap))
         \o SplitPieces(Tail(splits), <<>>, new_separators, chunk_size, chunk_overlap)

\* line 64 without the strip and the filter
StrippedChunksAsSplit(chunks) == chunks

\* line 64: [chunk.strip() for chunk in chunks if chunk.strip()]
StrippedChunks(chunks) ==
  NonEmpty([i \in 1..Len(chunks) |-> Strip(chunks[i])])

\* TextChunker.chunk_text, lines 50-64
ChunkText(text, chunk_size, chunk_overlap) ==
  IF text = <<>> \/ Strip(text) = <<>> THEN <<>>
  ELSE StrippedChunks(SplitText(text, Separators, chunk_size, chunk_overlap))

\* A parsed document is about to be chunked by a chunker of some size.
InitChunk ==
  \E text \in SeqsUpTo(Characters, MaxText), chunk_size \in 1..MaxChunk :
    \E chunk_overlap \in 0..(chunk_size - 1) :
      /\ up = TRUE
      /\ index = <<>>
      /\ metadata = <<>>
      /\ indexFile = NoIndexFile
      /\ metadataFile = NoMetadataFile
      /\ result = [op |-> "parse_document", status |-> "ok", text |-> text,
                   chunk_size |-> chunk_size, chunk_overlap |-> chunk_overlap]
      /\ hits = <<>>
      /\ added = <<>>
      /\ committed = NothingCommitted
      /\ tasks = NoTasks
      /\ parse = NoParse

\* chunker.chunk_text(text)
ChunkTextCall ==
  /\ result.op = "parse_document"
  /\ result' = [op |-> "chunk_text", status |-> "ok", text |-> result.text,
                chunk_size |-> result.chunk_size, chunk_overlap |-> result.chunk_overlap,
                chunks |-> ChunkText(result.text, result.chunk_size,
                                     result.chunk_overlap)]
  /\ UNCHANGED <<up, index, metadata, indexFile, metadataFile, hits, added, committed,
                 tasks, parse>>

NextChunk == ChunkTextCall

SpecChunk == InitChunk /\ [][NextChunk]_vars

\* C25 as stated: every non-empty text gives at least one chunk, and every
\* chunk is non-empty and has no whitespace at its ends.
ChunksOfNonEmptyText ==
  (result.op = "chunk_text" /\ result.text # <<>>) =>
    /\ result.chunks # <<>>
    /\ \A i \in 1..Len(result.chunks) :
         result.chunks[i] # <<>> /\ Strip(result.chunks[i]) = result.chunks[i]

\* C25, amended: every text that holds a character other than whitespace
\* gives at least one chunk, and every chunk of any text is non-empty and has
\* no whitespace at its ends.
ChunksOfNonBlankText ==
  result.op = "chunk_text" =>
    /\ Strip(result.text) # <<>> => result.chunks # <<>>
    /\ \A i \in 1..Len(result.chunks) :
         result.chunks[i] # <<>> /\ Strip(result.chunks[i]) = result.chunks[i]

ChunksOfNonBlankTextWitness ==
  /\ result.op = "chunk_text"
  /\ Len(result.chunks) >= 2
  /\ Len(result.text) = MaxText
  /\ result.text[1] \in Whitespace
  /\ \E i \in 1..Len(result.text) : result.text[i] = "a"
  /\ result.chunk_overlap > 0

\* C26: the scan for the balanced array does not count brackets that stand
\* inside a JSON string, so the span taken from a text that holds an array
\* ends at the bracket that closes the array.
BracketScanSkipsStrings ==
  (result.op = "generate_test_cases" /\ result.format = "json") =>
    \A body \in ArrayTexts, suffix \in Suffixes :
      result.text = <<"Here", ":", "\n">> \o body \o suffix =>
        BalancedArray(CleanResponse(result.text)) = Match(body)

\* The number of steps in the records of a list.
RECURSIVE TotalSteps(_)
TotalSteps(test_cases) ==
  IF test_cases = <<>> THEN 0
  ELSE Len(StepsOf(Head(test_cases))) + TotalSteps(Tail(test_cases))

\* C27: a parser adds a step to a record only while steps are being
\* collected: behind a Steps label with no other field label, Test_ID
\* included, read since.
StepsOnlyBehindStepsLabel ==
  [][\A parser \in {"backend", "frontend"} :
       TotalSteps(Finished(parse'[parser])) > TotalSteps(Finished(parse[parser]))
         => Collecting(parse.lines)]_vars

\* A text without bold markers and without whitespace at its ends.
Plain(s) == Strip(Remove(s, <<"**">>))

\* Every value and every step of the record is stored without bold markers
\* and without whitespace around it.
StoredPlain(case) ==
  \A name \in DOMAIN case.v :
    /\ case.v[name].t = "str" => Plain(case.v[name].v) = case.v[name].v
    /\ case.v[name].t = "list" =>
         \A i \in 1..Len(case.v[name].v) : Plain(case.v[name].v[i].v) = case.v[name].v[i].v

\* C28: a Test_ID label, plain or in bold, opens a record with the text behind
\* the label as its Test_ID, and every value and step is stored without bold
\* markers and without whitespace around it.
BoldLabelsAndValues ==
  \A parser \in {"backend", "frontend"} :
    /\ (parse.lines # <<>> /\ LabelOf(parse.lines[Len(parse.lines)]) = "Test_ID") =>
         /\ Key("Test_ID") \in DOMAIN parse[parser].current_case
         /\ parse[parser].current_case[Key("Test_ID")]
              = JsonStr(Plain(ValueOf(parse.lines[Len(parse.lines)])))
    /\ parse.lines # <<>> =>
         \A i \in 1..Len(Finished(parse[parser])) : StoredPlain(Finished(parse[parser])[i])

\* ------------------------------------------------------- document upload
\* (backend/api/ingestion.py, upload_document)
\* The texts a parser hands back: _clean_text leaves no whitespace at the
\* ends, so a file of whitespace only is parsed to the empty text.
UploadTexts ==
  { <<>>, <<"a">>, <<"a", ".", " ", "a">>, <<"a", "\n", "\n", "a", ".">> }

\* parse_file: it raises (an unreadable or undecodable file) or returns a dict
\* with the cleaned text and the metadata of the file.
ParseResults ==
  {[raises |-> TRUE, text |-> <<>>, metadata |-> <<>>]} \cup
  {[raises |-> FALSE, text |-> text,
    metadata |-> [source |-> "doc.txt", type |-> "txt"]] : text \in UploadTexts}

\* The chunker of the ingestion module, scaled to the texts above.
UploadChunkSize == MaxChunk
UploadChunkOverlap == 1

\* A chunk as a Python str
RECURSIVE Joined(_)
Joined(chars) == IF chars = <<>> THEN "" ELSE Head(chars) \o Joined(Tail(chars))

\* lines 54-57: the chunks of the text, each with a copy of the metadata
ChunkedDocs(parsed) ==
  LET chunks == ChunkText(parsed.text, UploadChunkSize, UploadChunkOverlap)
  IN  [i \in 1..Len(chunks) |-> [text |-> Joined(chunks[i]), metadata |-> parsed.metadata]]

\* lines 42-67: what the body of the try block raises, "" when it returns
UploadRaised(parsed, status) ==
  IF parsed.raises THEN "Exception"
  ELSE IF parsed.text = <<>> THEN "HTTPException(400)"
  ELSE IF status # "ok" THEN status
  ELSE ""

\* lines 62-69: the answer of the handler.  Whatever the body raises, the 400
\* of line 47 included, is an Exception and is answered by line 69.
UploadResponse(raised) ==
  IF raised = "" THEN [http |-> 200, detail |-> "success"]
  ELSE [http |-> 500, detail |-> "Error processing document"]

\* upload_document: the temporary file is written, parsed, chunked and added,
\* and removed by the finally clause.
UploadDocumentCall(parsed, fault) ==
  LET docs == IF parsed.raises \/ parsed.text = <<>> THEN <<>> ELSE ChunkedDocs(parsed)
      mem == AddInMemory(index, metadata, docs, "conforming")
      disk == PersistFiles(mem.index, mem.metadata, indexFile, metadataFile, fault)
      status == IF mem.appended THEN disk.status ELSE mem.status
      raised == UploadRaised(parsed, status)
      tmp_exists == FALSE
  IN  /\ up
      /\ Len(mem.index) <= MaxEntries
      /\ fault # "none" => mem.appended
      /\ index' = mem.index
      /\ metadata' = mem.metadata
      /\ indexFile' = IF mem.appended THEN disk.indexFile ELSE indexFile
      /\ metadataFile' = IF mem.appended THEN disk.metadataFile ELSE metadataFile
      /\ result' = [op |-> "upload_document", status |-> raised,
                    http |-> UploadResponse(raised).http,
                    detail |-> UploadResponse(raised).detail,
                    parsed |-> parsed, n |-> Len(docs), before |-> Len(index),
                    tmp_exists |-> tmp_exists]
      /\ hits' = <<>>
      /\ added' = IF mem.appended THEN added \o docs ELSE added
      /\ committed' = IF mem.appended /\ status = "ok"
                        THEN [index |-> mem.index, metadata |-> mem.metadata]
                        ELSE committed
      /\ UNCHANGED <<up, tasks, parse>>

UploadDocument == \E parsed \in ParseResults : UploadDocumentCall(parsed, "none")

UploadIOError ==
  \E parsed \in ParseResults, fault \in IOFaults : UploadDocumentCall(parsed, fault)

NextUpload == UploadDocument \/ UploadIOError \/ Clear

SpecUpload == Init /\ [][NextUpload]_vars

\* C29: when the parsed file yields no text, upload_document answers with
\* status 400, adds nothing to the index and removes the temporary file.
NoContentAnswered400 ==
  (result.op = "upload_document" /\ ~result.parsed.raises /\ result.parsed.text = <<>>) =>
    /\ result.http = 400
    /\ Len(index) = result.before
    /\ ~result.tmp_exists

\* ------------------------------------------- the LLM call and its errors
\* (backend/api/generation.py, generate_test_cases)
\* llm.generate raises (no connection, a provider error) or returns a text,
\* which may be empty.
LlmAnswers ==
  { <<>>,
    Array(<<Object(<<Member("Test_ID", Quoted(<<"TC-001">>))>>)>>),
    MarkdownText,
    <<"Sorry", ",", " ", "no", " ", "test", " ", "cases">> }

LlmOutcomes ==
  {[raises |-> TRUE, text |-> <<>>]} \cup
  {[raises |-> FALSE, text |-> text] : text \in LlmAnswers}

\* lines 515-532: what the body of the try block raises up to the check of
\* the LLM's response, "" when it goes on to build the response
GenerateRaised(rag_status, outcome) ==
  IF rag_status = "ValueError" THEN "ValueError"
  ELSE IF outcome.raises THEN "HTTPException(500)"
  ELSE IF outcome.text = <<>> THEN "HTTPException(500)"
  ELSE ""

\* lines 534-717: the response built from a non-empty text of the LLM
Built(llm_response, source_documents, format) ==
  IF format = "json"
    THEN ExtractStructured(llm_response, source_documents)
    ELSE [status |-> "success", stage |-> "none", test_cases |-> JsonStr(llm_response)]

\* lines 766-774 and 782-792: the record that carries the raw response, or
\* the words that stand for a missing one
RawFormat(raw_response) ==
  JsonDict(Put(Put(<<>>, Key("raw_response"), JsonStr(raw_response)),
               Key("format"), JsonStr(<<"raw">>)))

\* lines 721-792: the handler's except Exception.  It raises nothing: with a
\* response of the LLM at hand it parses it as markdown or returns it raw,
\* and without one it returns the last-resort record.
ExceptException(llm_resp, src_docs) ==
  LET parsed_markdown == ParseMarkdownTestCases(llm_resp, src_docs)
  IN  IF llm_resp # <<>> /\ parsed_markdown.found
        THEN [http |-> 200, status |-> "success", stage |-> "markdown",
              test_cases |-> JsonList(parsed_markdown.test_cases)]
      ELSE IF llm_resp # <<>>
        THEN [http |-> 200, status |-> "success", stage |-> "raw",
              test_cases |-> RawFormat(llm_resp)]
      ELSE [http |-> 200, status |-> "success", stage |-> "last_resort",
            test_cases |-> RawFormat(<<"No response from LLM">>)]

\* generate_test_cases, lines 438-792: the answer to one request, given what
\* generate_with_rag ended with
GenerateTestCasesResponse(rag_status, source_documents, format, outcome) ==
  IF GenerateRaised(rag_status, outcome) = "ValueError"
    THEN [http |-> 400, status |-> "error", stage |-> "none",
          test_cases |-> JsonWord("none", "")]
  ELSE IF GenerateRaised(rag_status, outcome) # ""
    THEN ExceptException(<<>>, <<>>)
  ELSE [http |-> 200] @@ Built(outcome.text, source_documents, format)

\* The outcome of one request, as the properties read it
Answered(q, k, format, outcome, rag_status, response) ==
  [op |-> "generate_test_cases", status |-> response.status, http |-> response.http,
   q |-> q, k |-> k, format |-> format, llm |-> outcome, rag |-> rag_status,
   raised |-> GenerateRaised(rag_status, outcome),
   stage |-> response.stage, test_cases |-> response.test_cases]

GenerateTestCasesCall(q, k, format, outcome, rag) ==
  /\ up
  /\ result' = Answered(q, k, format, outcome, rag.status,
                        GenerateTestCasesResponse(rag.status,
                                                  SourceDocuments(rag.contexts),
                                                  format, outcome))
  /\ hits' = IF rag.status = "ok" THEN SearchHits(index, metadata, q, k) ELSE <<>>
  /\ UNCHANGED <<up, index, metadata, indexFile, metadataFile, added, committed,
                 tasks, parse>>

GenerateTestCases ==
  \E q \in Queries, k \in 1..MaxK, format \in OutputFormats, outcome \in LlmOutcomes :
    GenerateTestCasesCall(q, k, format, outcome,
                          GenerateWithRagResult(index, metadata, q, k, format))

\* The index is empty or holds the one chunk of a first upload.
InitGenerate ==
  \E store \in {EmptyStore, FirstStore} :
    /\ up = TRUE
    /\ index = store.index
    /\ metadata = store.metadata
    /\ indexFile = store.indexFile
    /\ metadataFile = store.metadataFile
    /\ result = Outcome("init", "ok")
    /\ hits = <<>>
    /\ added = IF store = EmptyStore THEN <<>> ELSE StartStore.added
    /\ committed = [index |-> store.index, metadata |-> store.metadata]
    /\ tasks = NoTasks
    /\ parse = NoParse

NextGenerate == GenerateTestCases

SpecGenerate == InitGenerate /\ [][NextGenerate]_vars

\* C30: when the LLM call raises or returns an empty response the handler
\* answers with status 500, and a response with status "success" is produced
\* only when the LLM returned a non-empty text.
LlmFailureAnswered500 ==
  (result.op = "generate_test_cases" /\ result.rag = "ok") =>
    /\ (result.llm.raises \/ result.llm.text = <<>>) => result.http = 500
    /\ result.status = "success" => (~result.llm.raises /\ result.llm.text # <<>>)

====
